---- MODULE Spec2Model ----
(***************************************************************************)
(* CookieGuard AI: the per-cookie analysis pipeline                        *)
(*   feature_extractor.py -> (classifier) -> risk_scorer.py                *)
(*   -> explainability.py / attack_simulator.py                            *)
(* Python values are modelled as records [k |-> kind, ...]; strings as     *)
(* sequences of tokens (prefix and substring tests work on tokens);        *)
(* Python floats as IEEE-754 doubles over arbitrary-precision naturals.    *)
(***************************************************************************)
EXTENDS Integers, Sequences, FiniteSets, TLC

(***************************************************************************)
(* Arbitrary-precision naturals: little-endian sequences of 15-bit limbs.  *)
(* They carry the 53-bit mantissas of Python floats.                       *)
(***************************************************************************)
LimbBase == 2^15

RECURSIVE Pow2(_)
Pow2(n) == IF n = 0 THEN 1 ELSE 2 * Pow2(n - 1)

RECURSIVE BitLenSmall(_)
BitLenSmall(n) == IF n = 0 THEN 0 ELSE 1 + BitLenSmall(n \div 2)

LimbBits == BitLenSmall(LimbBase) - 1

RECURSIVE BigNorm(_)
BigNorm(a) ==
    IF Len(a) = 0 THEN a
    ELSE IF a[Len(a)] = 0 THEN BigNorm(SubSeq(a, 1, Len(a) - 1)) ELSE a

RECURSIVE BigFromNat(_)
BigFromNat(n) ==
    IF n = 0 THEN << >> ELSE << n % LimbBase >> \o BigFromNat(n \div LimbBase)

RECURSIVE BigToNat(_)
BigToNat(a) ==
    IF Len(a) = 0 THEN 0 ELSE a[1] + LimbBase * BigToNat(Tail(a))

BigLimb(a, i) == IF i <= Len(a) THEN a[i] ELSE 0

RECURSIVE BigAddC(_, _, _)
BigAddC(a, b, c) ==
    IF Len(a) = 0 /\ Len(b) = 0
    THEN (IF c = 0 THEN << >> ELSE << c >>)
    ELSE LET s == BigLimb(a, 1) + BigLimb(b, 1) + c
         IN  << s % LimbBase >>
             \o BigAddC(IF Len(a) = 0 THEN a ELSE Tail(a),
                        IF Len(b) = 0 THEN b ELSE Tail(b),
                        s \div LimbBase)

BigAdd(a, b) == BigAddC(a, b, 0)

RECURSIVE BigMulSmallC(_, _, _)
BigMulSmallC(a, k, c) ==
    IF Len(a) = 0
    THEN (IF c = 0 THEN << >> ELSE << c >>)
    ELSE LET p == a[1] * k + c
         IN  << p % LimbBase >> \o BigMulSmallC(Tail(a), k, p \div LimbBase)

\* a * k for a limb-sized k (0 <= k < LimbBase)
BigMulSmall(a, k) == BigNorm(BigMulSmallC(a, k, 0))

RECURSIVE BigMul(_, _)
BigMul(a, b) ==
    IF Len(b) = 0 THEN << >>
    ELSE BigNorm(BigAdd(BigMulSmallC(a, b[1], 0), << 0 >> \o BigMul(a, Tail(b))))

\* long division by a limb-sized k, most significant limb first
RECURSIVE BigDivSmallR(_, _, _)
BigDivSmallR(a, k, i) ==
    IF i > Len(a) THEN [q |-> << >>, r |-> 0]
    ELSE LET hi  == BigDivSmallR(a, k, i + 1)
             cur == hi.r * LimbBase + a[i]
         IN  [q |-> << cur \div k >> \o hi.q, r |-> cur % k]

BigDivSmall(a, k) ==
    LET d == BigDivSmallR(a, k, 1) IN [q |-> BigNorm(d.q), r |-> d.r]

BigBitLen(a0) ==
    LET a == BigNorm(a0)
    IN  IF Len(a) = 0 THEN 0
        ELSE LimbBits * (Len(a) - 1) + BitLenSmall(a[Len(a)])

RECURSIVE BigZeros(_)
BigZeros(n) == IF n = 0 THEN << >> ELSE << 0 >> \o BigZeros(n - 1)

\* a * 2^s
BigShl(a, s) ==
    BigNorm(BigZeros(s \div LimbBits) \o BigMulSmallC(a, Pow2(s % LimbBits), 0))

\* floor(a / 2^s)
BigShr(a, s) ==
    LET drop == s \div LimbBits
    IN  IF drop >= Len(a) THEN << >>
        ELSE BigDivSmall(SubSeq(a, drop + 1, Len(a)), Pow2(s % LimbBits)).q

BigBit(a, i) == (BigLimb(a, (i \div LimbBits) + 1) \div Pow2(i % LimbBits)) % 2

\* a mod 2^s # 0
BigLowNonZero(a, s) ==
    \/ \E j \in 1..(s \div LimbBits) : BigLimb(a, j) # 0
    \/ BigLimb(a, (s \div LimbBits) + 1) % Pow2(s % LimbBits) # 0

(***************************************************************************)
(* IEEE-754 binary64 values >= 0 as [m |-> mantissa, e |-> exponent],      *)
(* value m * 2^e with m < 2^53; every operation rounds the exact result to *)
(* nearest, ties to even, as CPython's float arithmetic does.              *)
(***************************************************************************)
MantBits == 53

\* the double nearest to n * 2^e (n an arbitrary-precision natural)
FRound(n0, e) ==
    LET n == BigNorm(n0)
        l == BigBitLen(n)
    IN  IF l <= MantBits THEN [m |-> n, e |-> e]
        ELSE LET s     == l - MantBits
                 q     == BigShr(n, s)
                 guard == BigBit(n, s - 1)
                 stick == BigLowNonZero(n, s - 1)
                 up    == guard = 1 /\ (stick \/ BigBit(q, 0) = 1)
                 q1    == IF up THEN BigNorm(BigAdd(q, << 1 >>)) ELSE q
             IN  IF BigBitLen(q1) > MantBits
                 THEN [m |-> BigShr(q1, 1), e |-> e + s + 1]
                 ELSE [m |-> q1, e |-> e + s]

\* float(n) for a small integer n
FInt(n) == [m |-> BigFromNat(n), e |-> 0]

\* a / b for small integers a >= 0, b > 0 (also the value of a decimal
\* literal a/b, which Python rounds the same way)
FDivInt(a, b) ==
    LET qr == BigDivSmall(BigShl(BigFromNat(a), 64), b)
        n  == BigAdd(BigShl(qr.q, 1), IF qr.r = 0 THEN << >> ELSE << 1 >>)
    IN  FRound(n, 0 - 65)

FMul(x, y) == FRound(BigMul(x.m, y.m), x.e + y.e)

FAdd(x, y) ==
    LET e == IF x.e < y.e THEN x.e ELSE y.e
    IN  FRound(BigAdd(BigShl(x.m, x.e - e), BigShl(y.m, y.e - e)), e)

\* x < y
FLess(x, y) ==
    LET e  == IF x.e < y.e THEN x.e ELSE y.e
        a  == BigNorm(BigShl(x.m, x.e - e))
        b  == BigNorm(BigShl(y.m, y.e - e))
        RECURSIVE Lt(_)
        Lt(i) == IF i = 0 THEN FALSE
                 ELSE IF a[i] # b[i] THEN a[i] < b[i] ELSE Lt(i - 1)
    IN  IF Len(a) # Len(b) THEN Len(a) < Len(b) ELSE Lt(Len(a))

FMin(x, y) == IF FLess(y, x) THEN y ELSE x

\* int(x): truncation toward zero
FTrunc(x) ==
    IF x.e >= 0 THEN BigToNat(BigShl(x.m, x.e))
    ELSE BigToNat(BigShr(x.m, 0 - x.e))

FEq(x, y) == ~FLess(x, y) /\ ~FLess(y, x)

(***************************************************************************)
(* Python values of a cookie dict.  "absent": the key is not in the dict.  *)
(* Strings are sequences of tokens; a timestamp n counts half days since   *)
(* the epoch ("iso" is the same instant given as an ISO-8601 string).      *)
(***************************************************************************)
Absent  == [k |-> "absent"]
None    == [k |-> "none"]
Bool(b) == [k |-> "bool", b |-> b]
Str(s)  == [k |-> "str", s |-> s]
Num(n)  == [k |-> "num", n |-> n]
Iso(n)  == [k |-> "iso", n |-> n]

\* cookie.get(key, default) and cookie.get(key)
Get(cookie, key, default) ==
    IF cookie[key].k = "absent" THEN default ELSE cookie[key]

GetOrNone(cookie, key) == Get(cookie, key, None)

\* bool(v)
Truthy(v) ==
    CASE v.k = "none" -> FALSE
      [] v.k = "bool" -> v.b
      [] v.k = "str"  -> v.s # << >>
      [] v.k = "num"  -> v.n # 0
      [] v.k = "iso"  -> TRUE
      [] v.k = "list" -> v.items # << >>
      [] OTHER        -> FALSE

\* one token of str.lower()
LowerTok(t) ==
    CASE t = "__Host-"  -> "__host-"
      [] t = "Shared"   -> "shared"
      [] t = "Global"   -> "global"
      [] t = "Strict"   -> "strict"
      [] t = "Lax"      -> "lax"
      [] t = "None"     -> "none"
      [] t = "True"     -> "true"
      [] t = "False"    -> "false"
      [] t = "Missing"  -> "missing"
      [] t = "HttpOnly" -> "httponly"
      [] t = "Secure"   -> "secure"
      [] t = "Flag"     -> "flag"
      [] t = "SameSite" -> "samesite"
      [] t = "Protection" -> "protection"
      [] t = "Wildcard" -> "wildcard"
      [] t = "Domain"   -> "domain"
      [] t = "Subdomain" -> "subdomain"
      [] t = "Takeover" -> "takeover"
      [] t = "Risk"     -> "risk"
      [] t = "Non-host-only" -> "non-host-only"
      [] t = "Scope"    -> "scope"
      [] t = "Cookie"   -> "cookie"
      [] t = "Naming"   -> "naming"
      [] t = "Broad"    -> "broad"
      [] t = "Path"     -> "path"
      [] t = "Long-Lived" -> "long-lived"
      [] t = "Session"  -> "session"
      [] t = "Moderate" -> "moderate"
      [] t = "Lifetime" -> "lifetime"
      [] t = "Multi-Day" -> "multi-day"
      [] t = "Foo"      -> "foo"
      [] OTHER          -> t

\* str.lower()
Lower(s) == [i \in 1..Len(s) |-> LowerTok(s[i])]

\* s.startswith(tok) and tok in s, for a one-token needle
StartsWith(s, tok) == Len(s) > 0 /\ s[1] = tok
Contains(s, tok)   == \E i \in 1..Len(s) : s[i] = tok

(***************************************************************************)
(* risk_scorer.py                                                          *)
(***************************************************************************)
CRITICAL == "critical"
HIGH     == "high"
MEDIUM   == "medium"
LOW      == "low"
INFO     == "info"

\* the two tuples of _coerce_bool; "U+2713" and "U+2717" are the one-character
\* strings of the check mark and the ballot cross
TrueStrings ==
    {<< "true" >>, << "1" >>, << "yes" >>, << "y" >>, << "U+2713" >>,
     << "U+2713", " ", "yes" >>, << "on" >>}
FalseStrings ==
    {<< "false" >>, << "0" >>, << "no" >>, << "n" >>, << "U+2717" >>,
     << "U+2717", " ", "no" >>, << "off" >>}

\* str.strip(): leading and trailing whitespace tokens removed
RECURSIVE LStrip(_)
LStrip(s) ==
    IF s # << >> /\ s[1] = " " THEN LStrip(Tail(s)) ELSE s

RECURSIVE RStrip(_)
RStrip(s) ==
    IF s # << >> /\ s[Len(s)] = " " THEN RStrip(SubSeq(s, 1, Len(s) - 1)) ELSE s

Strip(s) == RStrip(LStrip(s))

\* _coerce_bool(v): None stays None
coerce_bool(v) ==
    CASE v.k = "none" -> None
      [] v.k = "bool" -> v
      [] v.k = "num"  -> Bool(v.n # 0)
      [] v.k = "str"  ->
            IF Lower(Strip(v.s)) \in TrueStrings THEN Bool(TRUE)
            ELSE IF Lower(Strip(v.s)) \in FalseStrings THEN Bool(FALSE)
            ELSE Bool(Truthy(v))
      [] OTHER        -> Bool(Truthy(v))

\* _get_flag(cookie, *keys, default): the first key present decides
\* variant: only the first spelling of the key is looked up
get_flag_FirstSpelling(cookie, keys, default) ==
    IF keys = << >> \/ cookie[keys[1]].k = "absent" THEN default
    ELSE coerce_bool(cookie[keys[1]])

RECURSIVE get_flag(_, _, _)
get_flag(cookie, keys, default) ==
    IF keys = << >> THEN default
    ELSE IF cookie[keys[1]].k # "absent" THEN coerce_bool(cookie[keys[1]])
    ELSE get_flag(cookie, Tail(keys), default)

HttpOnlyKeys == << "httpOnly", "HttpOnly", "httponly", "http_only" >>
SecureKeys   == << "secure", "Secure" >>

Issue(sev, title) == [severity |-> sev, title |-> title]

T_HttpOnly   == << "Missing", "HttpOnly", "Flag" >>
T_Secure     == << "Missing", "Secure", "Flag" >>
T_SameSite   == << "Missing", "SameSite", "Protection" >>
T_Wildcard   == << "Wildcard", "Domain", "-", "Subdomain", "Takeover", "Risk" >>
T_HostPrefix == << "__Host-", "prefix", "requires", "host-only", "cookie" >>
T_HostUnverifiable == << "__Host-", "compliance", "not", "verifiable" >>
T_NonHostOnly == << "Non-host-only", "Domain", "Scope" >>
T_Shared     == << "Shared", "Cookie", "Naming" >>
T_BroadPath  == << "Broad", "Path", "Scope" >>
T_LongLived  == << "Long-Lived", "Session", "Cookie" >>
T_Moderate   == << "Moderate", "Session", "Lifetime" >>
T_MultiDay   == << "Multi-Day", "Session" >>

\* one rule's outcome: issues and recommendations appended, points added
Fired(sev, title, pts, recs) ==
    [issues |-> << Issue(sev, title) >>, points |-> pts, recs |-> recs]
Quiet == [issues |-> << >>, points |-> 0, recs |-> << >>]

\* float literals of the scorer
F_1_0  == FInt(1)
F_1_5  == FDivInt(15, 10)
F_1_3  == FDivInt(13, 10)
F_1_15 == FDivInt(115, 100)
F_1_05 == FDivInt(105, 100)

\* max((dt - datetime.now()).days, 0): whole days left, timedelta.days floors
DaysLeft(expiry, now) ==
    LET d == (expiry.n - now) \div 2 IN IF d > 0 THEN d ELSE 0

\* variant: the critical tier starting above 50 instead of at 50
OverallSeverity_Above(risk_score) ==
    IF risk_score > 50 THEN CRITICAL
    ELSE IF risk_score >= 30 THEN HIGH
    ELSE IF risk_score >= 15 THEN MEDIUM
    ELSE IF risk_score > 0 THEN LOW
    ELSE INFO

\* variant: the high tier starting at 45 instead of 30
OverallSeverity_HighFrom45(risk_score) ==
    IF risk_score >= 50 THEN CRITICAL
    ELSE IF risk_score >= 45 THEN HIGH
    ELSE IF risk_score >= 15 THEN MEDIUM
    ELSE IF risk_score > 0 THEN LOW
    ELSE INFO

\* the overall severity of a final score
OverallSeverity(risk_score) ==
    IF risk_score >= 50 THEN CRITICAL
    ELSE IF risk_score >= 30 THEN HIGH
    ELSE IF risk_score >= 15 THEN MEDIUM
    ELSE IF risk_score > 0 THEN LOW
    ELSE INFO

\* variant: the gate opening at P(authentication) = 0.3
is_auth_AtThreshold(ml_type, ml_probabilities) ==
    ml_type = "authentication" \/ ml_probabilities["authentication"] >= 30

\* the gate: is the cookie judged security-sensitive
is_auth(ml_type, ml_probabilities) ==
    ml_type = "authentication" \/ ml_probabilities["authentication"] > 30

\* (cookie.get('sameSite', '') or '').lower()
SameSiteLower(cookie) ==
    LET v == Get(cookie, "sameSite", Str(<< >>))
    IN  IF Truthy(v) THEN Lower(v.s) ELSE << >>

\* variant: the HttpOnly rule worth 4 points
HttpOnlyCheck_FourPoints(cookie) ==
    IF ~Truthy(get_flag(cookie, HttpOnlyKeys, Bool(FALSE)))
    THEN Fired(CRITICAL, T_HttpOnly, 4, << "block_inline_scripts" >>)
    ELSE Quiet

HttpOnlyCheck(cookie) ==
    IF ~Truthy(get_flag(cookie, HttpOnlyKeys, Bool(FALSE)))
    THEN Fired(CRITICAL, T_HttpOnly, 40, << "block_inline_scripts" >>)
    ELSE Quiet

\* variant: a missing Secure flag worth 15 points
SecureCheck_FifteenPoints(cookie) ==
    IF ~Truthy(get_flag(cookie, SecureKeys, Bool(FALSE)))
    THEN Fired(HIGH, T_Secure, 15, << "avoid_public_wifi" >>)
    ELSE Quiet

SecureCheck(cookie) ==
    IF ~Truthy(get_flag(cookie, SecureKeys, Bool(FALSE)))
    THEN Fired(HIGH, T_Secure, 25, << "avoid_public_wifi" >>)
    ELSE Quiet

SameSiteCheck(cookie) ==
    LET samesite == SameSiteLower(cookie)
    IN  IF samesite = << >> \/ samesite \in {<< "none" >>, << "no_restriction" >>}
        THEN Fired(HIGH, T_SameSite, 20, << "cautious_cross_site_links" >>)
        ELSE Quiet

\* variant: an unknown hostOnly defaulted to false
HostOnlyTriState_DefaultFalse(cookie) ==
    Bool(Truthy(GetOrNone(cookie, "hostOnly")))

\* host_only = None if cookie.get('hostOnly') is None else bool(...)
HostOnlyTriState(cookie) ==
    LET h == GetOrNone(cookie, "hostOnly")
    IN  IF h.k = "none" THEN None ELSE Bool(Truthy(h))

IsFalse(v) == v.k = "bool" /\ ~v.b

Scope(rule, has_scope_issue, breadth_factor) ==
    [issues |-> rule.issues, points |-> rule.points, recs |-> rule.recs,
     has_scope_issue |-> has_scope_issue, breadth_factor |-> breadth_factor]

\* variant: the unverifiable __Host- branch widening the breadth like the
\* branch above it
ScopeCheck_UnverifiableWidens(cookie, site_host) ==
    LET domain    == Get(cookie, "domain", Str(<< >>))
        name      == Get(cookie, "name", Str(<< >>)).s
        host_only == HostOnlyTriState(cookie)
        is_host_prefix == StartsWith(name, "__Host-")
    IN  IF Truthy(domain) /\ StartsWith(domain.s, ".")
        THEN Scope(Fired(MEDIUM, T_Wildcard, 15, << "log_out_clear_cookies" >>),
                   TRUE, F_1_5)
        ELSE IF is_host_prefix
        THEN (IF IsFalse(host_only)
              THEN Scope(Fired(HIGH, T_HostPrefix, 20, << "report_misconfiguration" >>),
                         TRUE, F_1_3)
              ELSE IF host_only.k = "none"
              THEN Scope(Fired(INFO, T_HostUnverifiable, 0, << >>), FALSE, F_1_3)
              ELSE Scope(Quiet, FALSE, F_1_0))
        ELSE IF IsFalse(host_only) /\ Truthy(domain)
                /\ domain.s \notin {<< "localhost" >>, << "127.0.0.1" >>}
        THEN (IF Truthy(site_host) /\ domain.s = site_host.s
              THEN Scope(Quiet, FALSE, F_1_0)
              ELSE Scope(Fired(LOW, T_NonHostOnly, 6, << "broader_domain_scope" >>),
                         TRUE, F_1_15))
        ELSE IF Contains(Lower(name), "shared") \/ Contains(Lower(name), "global")
        THEN Scope(Fired(LOW, T_Shared, 4, << >>), TRUE, F_1_05)
        ELSE Scope(Quiet, FALSE, F_1_0)

\* variant: the naming heuristic tried before the non-host-only branch
ScopeCheck_NamingFirst(cookie, site_host) ==
    LET domain    == Get(cookie, "domain", Str(<< >>))
        name      == Get(cookie, "name", Str(<< >>)).s
        host_only == HostOnlyTriState(cookie)
        is_host_prefix == StartsWith(name, "__Host-")
    IN  IF Truthy(domain) /\ StartsWith(domain.s, ".")
        THEN Scope(Fired(MEDIUM, T_Wildcard, 15, << "log_out_clear_cookies" >>),
                   TRUE, F_1_5)
        ELSE IF is_host_prefix
        THEN (IF IsFalse(host_only)
              THEN Scope(Fired(HIGH, T_HostPrefix, 20, << "report_misconfiguration" >>),
                         TRUE, F_1_3)
              ELSE IF host_only.k = "none"
              THEN Scope(Fired(INFO, T_HostUnverifiable, 0, << >>), FALSE, F_1_0)
              ELSE Scope(Quiet, FALSE, F_1_0))
        ELSE IF Contains(Lower(name), "shared") \/ Contains(Lower(name), "global")
        THEN Scope(Fired(LOW, T_Shared, 4, << >>), TRUE, F_1_05)
        ELSE IF IsFalse(host_only) /\ Truthy(domain)
                /\ domain.s \notin {<< "localhost" >>, << "127.0.0.1" >>}
        THEN (IF Truthy(site_host) /\ domain.s = site_host.s
              THEN Scope(Quiet, FALSE, F_1_0)
              ELSE Scope(Fired(LOW, T_NonHostOnly, 6, << "broader_domain_scope" >>),
                         TRUE, F_1_15))
        ELSE Scope(Quiet, FALSE, F_1_0)

\* the subdomain/scope branch; name is a string here
ScopeCheck(cookie, site_host) ==
    LET domain    == Get(cookie, "domain", Str(<< >>))
        name      == Get(cookie, "name", Str(<< >>)).s
        host_only == HostOnlyTriState(cookie)
        is_host_prefix == StartsWith(name, "__Host-")
    IN  IF Truthy(domain) /\ StartsWith(domain.s, ".")
        THEN Scope(Fired(MEDIUM, T_Wildcard, 15, << "log_out_clear_cookies" >>),
                   TRUE, F_1_5)
        ELSE IF is_host_prefix
        THEN (IF IsFalse(host_only)
              THEN Scope(Fired(HIGH, T_HostPrefix, 20, << "report_misconfiguration" >>),
                         TRUE, F_1_3)
              ELSE IF host_only.k = "none"
              THEN Scope(Fired(INFO, T_HostUnverifiable, 0, << >>), FALSE, F_1_0)
              ELSE Scope(Quiet, FALSE, F_1_0))
        ELSE IF IsFalse(host_only) /\ Truthy(domain)
                /\ domain.s \notin {<< "localhost" >>, << "127.0.0.1" >>}
        THEN (IF Truthy(site_host) /\ domain.s = site_host.s
              THEN Scope(Quiet, FALSE, F_1_0)
              ELSE Scope(Fired(LOW, T_NonHostOnly, 6, << "broader_domain_scope" >>),
                         TRUE, F_1_15))
        ELSE IF Contains(Lower(name), "shared") \/ Contains(Lower(name), "global")
        THEN Scope(Fired(LOW, T_Shared, 4, << >>), TRUE, F_1_05)
        ELSE Scope(Quiet, FALSE, F_1_0)

\* variant: the path read without its default "/"
BroadPathCheck_NoDefault(cookie, has_scope_issue) ==
    LET path == GetOrNone(cookie, "path")
        name == Get(cookie, "name", Str(<< >>)).s
    IN  IF path.k = "str" /\ path.s = << "/" >> /\ has_scope_issue
           /\ ~StartsWith(name, "__Host-")
        THEN Fired(LOW, T_BroadPath, 5, << "clear_after_sensitive_sessions" >>)
        ELSE Quiet

\* variant: the '__Host-' prefix not exempted
BroadPathCheck_AnyName(cookie, has_scope_issue) ==
    LET path == Get(cookie, "path", Str(<< "/" >>))
    IN  IF path.k = "str" /\ path.s = << "/" >> /\ has_scope_issue
        THEN Fired(LOW, T_BroadPath, 5, << "clear_after_sensitive_sessions" >>)
        ELSE Quiet

BroadPathCheck(cookie, has_scope_issue) ==
    LET path == Get(cookie, "path", Str(<< "/" >>))
        name == Get(cookie, "name", Str(<< >>)).s
    IN  IF path.k = "str" /\ path.s = << "/" >> /\ has_scope_issue
           /\ ~StartsWith(name, "__Host-")
        THEN Fired(LOW, T_BroadPath, 5, << "clear_after_sensitive_sessions" >>)
        ELSE Quiet

Lifetime(rule, lifetime_factor) ==
    [issues |-> rule.issues, points |-> rule.points, recs |-> rule.recs,
     lifetime_factor |-> lifetime_factor]

\* variant: the lifetime factor without its cap at one year
LifetimeFactor_Uncapped(days) == FAdd(FInt(1), FDivInt(days, 365))

\* 1.0 + min(days/365.0, 1.0); the values for a year are computed once
LifetimeFactor(days) == FAdd(F_1_0, FMin(FDivInt(days, 365), F_1_0))
LifetimeTable == [days \in 0..365 |-> LifetimeFactor(days)]
lifetime_factor_of(days) ==
    IF days \in DOMAIN LifetimeTable THEN LifetimeTable[days] ELSE LifetimeFactor(days)

\* variant: the moderate tier starting at 7 days instead of above 7
LifetimeCheck_FromSeven(cookie, now) ==
    LET expiry == GetOrNone(cookie, "expirationDate")
    IN  IF Truthy(expiry)
        THEN LET days == DaysLeft(expiry, now)
                 rule == IF days > 30
                         THEN Fired(MEDIUM, T_LongLived, 10, << "log_out_manually" >>)
                         ELSE IF days >= 7
                         THEN Fired(LOW, T_Moderate, 5, << "log_out_shared_devices" >>)
                         ELSE IF days >= 3
                         THEN Fired(LOW, T_MultiDay, 3, << >>)
                         ELSE Quiet
             IN  Lifetime(rule, lifetime_factor_of(days))
        ELSE Lifetime(Quiet, F_1_0)

LifetimeCheck(cookie, now) ==
    LET expiry == GetOrNone(cookie, "expirationDate")
    IN  IF Truthy(expiry)
        THEN LET days == DaysLeft(expiry, now)
                 rule == IF days > 30
                         THEN Fired(MEDIUM, T_LongLived, 10, << "log_out_manually" >>)
                         ELSE IF days > 7
                         THEN Fired(LOW, T_Moderate, 5, << "log_out_shared_devices" >>)
                         ELSE IF days >= 3
                         THEN Fired(LOW, T_MultiDay, 3, << >>)
                         ELSE Quiet
             IN  Lifetime(rule, lifetime_factor_of(days))
        ELSE Lifetime(Quiet, F_1_0)

\* exposure = breadth_factor * lifetime_factor; int(risk_score * exposure)
FinalScore(risk_score, breadth_factor, lifetime_factor) ==
    FTrunc(FMul(FInt(risk_score), FMul(breadth_factor, lifetime_factor)))

Summary(issues) == IF issues # << >> THEN "found_issues" ELSE "no_issues"

Raised(err, line) == [status |-> "raised", error |-> err, line |-> line]

analyze_cookie(cookie, ml_type, ml_confidence, ml_probabilities, site_host, now) ==
    IF ~is_auth(ml_type, ml_probabilities)
    THEN [status |-> "ok", sensitive |-> FALSE,
          cookie_name |-> Get(cookie, "name", Str(<< "Unknown" >>)),
          ml_classification |-> [type |-> ml_type, confidence |-> ml_confidence,
                                 probabilities |-> ml_probabilities],
          score |-> 0, severity |-> OverallSeverity(0), max_score |-> 100,
          issues |-> << >>, recommendations |-> << >>, summary |-> Summary(<< >>)]
    ELSE IF Get(cookie, "name", Str(<< >>)).k # "str"
    THEN Raised("AttributeError", 82)
    ELSE
    LET flags  == << HttpOnlyCheck(cookie), SecureCheck(cookie), SameSiteCheck(cookie) >>
        scope  == ScopeCheck(cookie, site_host)
        broad  == BroadPathCheck(cookie, scope.has_scope_issue)
        life   == LifetimeCheck(cookie, now)
        issues == flags[1].issues \o flags[2].issues \o flags[3].issues
                  \o scope.issues \o broad.issues \o life.issues
        recs   == flags[1].recs \o flags[2].recs \o flags[3].recs
                  \o scope.recs \o broad.recs \o life.recs
        raw    == flags[1].points + flags[2].points + flags[3].points
                  + scope.points + broad.points + life.points
        score  == FinalScore(raw, scope.breadth_factor, life.lifetime_factor)
    IN  [status |-> "ok", sensitive |-> TRUE,
         cookie_name |-> Get(cookie, "name", Str(<< "Unknown" >>)),
         ml_classification |-> [type |-> ml_type, confidence |-> ml_confidence,
                                probabilities |-> ml_probabilities],
         score |-> score, severity |-> OverallSeverity(score), max_score |-> 100,
         issues |-> issues, recommendations |-> recs, summary |-> Summary(issues),
         raw_points |-> raw, breadth_factor |-> scope.breadth_factor,
         lifetime_factor |-> life.lifetime_factor]

(***************************************************************************)
(* feature_extractor.py                                                    *)
(***************************************************************************)
AUTH_PATTERNS == {"session", "auth", "token", "login", "jwt", "bearer", "sid",
                  "user", "sso", "refresh"}
TRACKING_PATTERNS   == {"analytics", "tracking", "amplitude", "mixpanel"}
TRACKING_PREFIXES   == {"_ga", "_gid", "utm", "fbp", "_cl"}
PREFERENCE_PATTERNS == {"lang", "theme", "consent", "preferences", "settings",
                        "locale", "timezone", "currency"}

B2I(b) == IF b THEN 1 ELSE 0

RECURSIVE CountTok(_, _)
CountTok(s, tok) ==
    IF s = << >> THEN 0
    ELSE (IF s[1] = tok THEN 1 ELSE 0) + CountTok(Tail(s), tok)

\* s.lstrip('.')
RECURSIVE LStripDot(_)
LStripDot(s) ==
    IF s # << >> /\ s[1] = "." THEN LStripDot(Tail(s)) ELSE s

\* s.endswith(t)
EndsWith(s, t) ==
    Len(s) >= Len(t) /\ SubSeq(s, Len(s) - Len(t) + 1, Len(s)) = t

\* context.get(...) with the defaults of lines 129-132
EmptyContext ==
    [loginEvent |-> FALSE, changedCookies |-> {}, beforeCookieIndex |-> << >>,
     currentDomain |-> << >>]

\* int(v) of a behaviour field
IntOf(v) == IF v.k = "bool" THEN B2I(v.b) ELSE v.n

\* the three login-behaviour features (lines 128-156)
LoginBehavior(cookie, context) ==
    LET cookie_name == Get(cookie, "name", Str(<< >>))
        changed     == cookie_name.k = "str" /\ cookie_name.s \in context.changedCookies
        before      == context.beforeCookieIndex
        was_present == cookie_name.k = "str"
                       /\ \E i \in 1..Len(before) : before[i].name = cookie_name.s
        present     == \E i \in 1..Len(before) :
                           before[i].name = cookie_name.s /\ before[i].present
    IN  IF cookie["changed_during_login"].k # "absent"
        THEN [changed |-> IntOf(cookie["changed_during_login"]),
              new     |-> IntOf(Get(cookie, "new_after_login", Num(0))),
              rotated |-> IntOf(Get(cookie, "rotated_after_login", Num(0)))]
        ELSE IF context.loginEvent /\ context.changedCookies # {}
        THEN (IF before # << >>
              THEN [changed |-> B2I(changed), new |-> B2I(~was_present),
                    rotated |-> B2I(was_present /\ present)]
              ELSE [changed |-> B2I(changed), new |-> B2I(changed), rotated |-> 0])
        ELSE [changed |-> 0, new |-> 0, rotated |-> 0]

\* f_third_party_context (lines 175-184)
ThirdParty(cookie, context) ==
    LET domain == Get(cookie, "domain", Str(<< >>)).s
        clean_domain == LStripDot(domain)
    IN  IF cookie["third_party"].k # "absent"
        THEN IntOf(cookie["third_party"])
        ELSE IF context.currentDomain # << >>
        THEN B2I(clean_domain # context.currentDomain
                 /\ ~EndsWith(clean_domain, << "." >> \o context.currentDomain))
        ELSE 0

\* the value-shape features (lines 107-123).  A value is one token naming a
\* concrete string: "abc123" is 'abc123'; "jwt70" is the 70-character token
\* 'eyJhbGciOiJIUzI1NiIsInR5cCI6IkpXVCJ9.eyJ1c2VySWQiOiIxMjM0NSJ9.SflKxwRJ'
ValueFeatures(value) ==
    IF ~Truthy(value)
    THEN [value_length |-> 0, value_entropy_bucket |-> 0, value_looks_like_jwt |-> 0,
          value_looks_like_hex |-> 0, value_looks_base64 |-> 0, value_has_padding |-> 0,
          value_is_numeric |-> 0, value_length_bucket |-> 0]
    ELSE IF value.s = << "jwt70" >>
    THEN [value_length |-> 70, value_entropy_bucket |-> 2, value_looks_like_jwt |-> 1,
          value_looks_like_hex |-> 0, value_looks_base64 |-> 1, value_has_padding |-> 0,
          value_is_numeric |-> 0, value_length_bucket |-> 2]
    ELSE [value_length |-> 6, value_entropy_bucket |-> 1, value_looks_like_jwt |-> 0,
          value_looks_like_hex |-> 1, value_looks_base64 |-> 1, value_has_padding |-> 0,
          value_is_numeric |-> 0, value_length_bucket |-> 0]

extract_features(cookie, context, now) ==
    LET samesite == LET v == GetOrNone(cookie, "sameSite")
                    IN  IF Truthy(v) THEN Lower(v.s) ELSE << >>
        expiry   == GetOrNone(cookie, "expirationDate")
        days0    == IF Truthy(expiry) THEN DaysLeft(expiry, now) ELSE 0
        is_session  == ~Truthy(expiry)
        expiry_days == IF is_session THEN 0 ELSE IF days0 < 365 THEN days0 ELSE 365
        lifetime_category ==
            IF is_session THEN 0
            ELSE IF days0 < 1 THEN 0 ELSE IF days0 < 7 THEN 1
            ELSE IF days0 < 30 THEN 2 ELSE 3
        domainv  == Get(cookie, "domain", Str(<< >>))
        pathv    == Get(cookie, "path", Str(<< "/" >>))
        namev    == Get(cookie, "name", Str(<< >>))
        value    == Get(cookie, "value", Str(<< >>))
    IN
    IF domainv.k # "str" THEN Raised("AttributeError", 81)
    ELSE IF pathv.k # "str" THEN Raised("AttributeError", 85)
    ELSE IF namev.k # "str" THEN Raised("AttributeError", 95)
    ELSE
    LET domain == domainv.s
        path   == pathv.s
        name   == Lower(namev.s)
        wildcard == StartsWith(domain, ".")
        has_secure   == B2I(Truthy(Get(cookie, "secure", Bool(FALSE))))
        has_httponly == B2I(Truthy(Get(cookie, "httpOnly", Bool(FALSE))))
        samesite_level == IF samesite = << "strict" >> THEN 2
                          ELSE IF samesite = << "lax" >> THEN 1 ELSE 0
        host_only == GetOrNone(cookie, "hostOnly")
        beh == LoginBehavior(cookie, context)
        vf  == ValueFeatures(value)
    IN  [status |-> "ok",
         has_secure   |-> has_secure,
         has_httponly |-> has_httponly,
         has_samesite |-> B2I(Truthy(GetOrNone(cookie, "sameSite"))),
         samesite_level |-> samesite_level,
         is_session_cookie |-> B2I(is_session),
         expiry_days |-> expiry_days,
         lifetime_category |-> lifetime_category,
         domain_is_wildcard |-> B2I(wildcard),
         domain_depth |-> CountTok(domain, "."),
         etld_match |-> 1,
         path_is_root |-> B2I(path = << "/" >>),
         path_depth |-> (IF CountTok(path, "/") > 1 THEN CountTok(path, "/") - 1 ELSE 0),
         cross_site_sendable |->
             B2I(samesite = << >> \/ samesite \in {<< "none" >>, << "no_restriction" >>}),
         exposure_score |->
             FMul(IF wildcard THEN FInt(2) ELSE FInt(1),
                  FAdd(FInt(1), FDivInt(expiry_days, 365))),
         name_matches_auth |-> B2I(\E i \in 1..Len(name) : name[i] \in AUTH_PATTERNS),
         name_matches_tracking |->
             B2I(\/ \E i \in 1..Len(name) : name[i] \in TRACKING_PATTERNS
                 \/ (name # << >> /\ name[1] \in TRACKING_PREFIXES)),
         name_matches_preference |->
             B2I(\E i \in 1..Len(name) : name[i] \in PREFERENCE_PATTERNS),
         has_host_prefix |-> B2I(StartsWith(name, "__host-")),
         has_secure_prefix |-> B2I(StartsWith(name, "__secure-")),
         value_length |-> vf.value_length,
         value_entropy_bucket |-> vf.value_entropy_bucket,
         value_looks_like_jwt |-> vf.value_looks_like_jwt,
         value_looks_like_hex |-> vf.value_looks_like_hex,
         value_looks_base64 |-> vf.value_looks_base64,
         value_has_padding |-> vf.value_has_padding,
         value_is_numeric |-> vf.value_is_numeric,
         value_length_bucket |-> vf.value_length_bucket,
         f_changed_during_login |-> beh.changed,
         f_new_after_login |-> beh.new,
         f_rotated_after_login |-> beh.rotated,
         f_persistent_days_bucket |->
             (IF is_session THEN 0 ELSE IF expiry_days <= 7 THEN 1
              ELSE IF expiry_days <= 30 THEN 2 ELSE 3),
         f_subdomain_shared |->
             B2I(wildcard \/ (host_only.k # "none" /\ ~Truthy(host_only))),
         f_third_party_context |-> ThirdParty(cookie, context),
         f_login_behavior_score |-> beh.changed + beh.new + beh.rotated,
         f_security_posture_score |->
             has_secure + has_httponly + (IF samesite_level < 1 THEN samesite_level ELSE 1),
         cookie_name |-> GetOrNone(cookie, "name"),
         cookie_domain |-> GetOrNone(cookie, "domain")]

(***************************************************************************)
(* attack_simulator.py                                                     *)
(***************************************************************************)
\* a simulator that never looks at the features it is given
Feat_Ignored(features, name, default) == default

\* features.get(name, default) on the optional features dict
Feat(features, name, default) ==
    IF features.status = "ok" THEN features[name] ELSE default

AttackPath(type, sev) == [type |-> type, severity |-> sev]

Fix_XSS    == "Use a script-blocking extension"
Fix_CSRF   == "Avoid clicking untrusted links while logged in"
Fix_SUB    == "Clear cookies after sensitive sessions"
Fix_Report == "Report to site security team"
Fix_NET    == "Avoid this site on public WiFi or use a VPN"
Fix_REPLAY == "Log out manually and clear cookies regularly"

\* the fixes list without later entries that repeat a fix text
RECURSIVE Dedup(_, _)
Dedup(fixes, seen_fixes) ==
    IF fixes = << >> THEN << >>
    ELSE IF fixes[1] \in seen_fixes THEN Dedup(Tail(fixes), seen_fixes)
    ELSE << fixes[1] >> \o Dedup(Tail(fixes), seen_fixes \cup {fixes[1]})

HasType(paths, t) == \E i \in 1..Len(paths) : paths[i].type = t

summarize_impact(paths, auth) ==
    IF paths = << >> THEN "no_vectors"
    ELSE IF auth /\ HasType(paths, "XSS") /\ HasType(paths, "CSRF") THEN "xss_and_csrf"
    ELSE IF auth /\ HasType(paths, "XSS") THEN "xss"
    ELSE IF auth /\ HasType(paths, "CSRF") THEN "csrf"
    ELSE IF auth /\ HasType(paths, "NETWORK") THEN "network"
    ELSE IF auth /\ HasType(paths, "SUBDOMAIN") THEN "subdomain"
    ELSE "count_only"

\* the report fix whatever the cookie is called
ReportFix_Always(name) == << Fix_Report >>

\* if not name.startswith('__Host-'): fixes.append('Report to site security team')
ReportFix(name) ==
    IF ~StartsWith(name.s, "__Host-") THEN << Fix_Report >> ELSE << >>

\* a score that keeps growing past the fourth path
AttackSurfaceScore_Uncapped(path_count) == path_count * 25

\* min(len(paths) * 25, 100)
AttackSurfaceScore(path_count) ==
    IF path_count * 25 < 100 THEN path_count * 25 ELSE 100

\* a window that opens at exactly 30 days
Over30Days_Inclusive(expiry, now) ==
    IF expiry.k = "num" THEN expiry.n - now >= 60 ELSE FALSE

\* days > 30, with days = max((expiry - time.time()) / 86400, 0) for a
\* number and days = 30 for anything else; the clock counts half days
Over30Days(expiry, now) ==
    IF expiry.k = "num" THEN expiry.n - now > 60 ELSE FALSE

simulate_attacks(cookie, classification_type, risk_severity, risk_issues, features, now) ==
    LET auth      == classification_type = "authentication"
        name      == Get(cookie, "name", Str(<< >>))
        domain    == Get(cookie, "domain", Str(<< >>))
        secure    == Truthy(Get(cookie, "secure", Bool(FALSE)))
        http_only == Truthy(Get(cookie, "httpOnly", Bool(FALSE)))
        same_site == LET v == GetOrNone(cookie, "sameSite")
                     IN  IF Truthy(v) THEN Lower(v.s) ELSE << >>
        expiry    == GetOrNone(cookie, "expirationDate")
        xss  == IF ~http_only
                THEN [paths |-> << AttackPath("XSS", IF auth THEN "critical" ELSE "medium") >>,
                      fixes |-> << Fix_XSS >>]
                ELSE [paths |-> << >>, fixes |-> << >>]
        csrf == IF same_site = << >> \/ same_site \in {<< "none" >>, << "no_restriction" >>}
                THEN [paths |-> << AttackPath("CSRF", IF auth THEN "high" ELSE "low") >>,
                      fixes |-> << Fix_CSRF >>]
                ELSE [paths |-> << >>, fixes |-> << >>]
        sub_hit == \/ StartsWith(domain.s, ".")
                   \/ (Feat(features, "f_subdomain_shared", 0) # 0 /\ auth)
        sub  == IF sub_hit
                THEN [paths |-> << AttackPath("SUBDOMAIN", IF auth THEN "high" ELSE "medium") >>,
                      fixes |-> << Fix_SUB >> \o ReportFix(name)]
                ELSE [paths |-> << >>, fixes |-> << >>]
        net  == IF ~secure
                THEN [paths |-> << AttackPath("NETWORK", IF auth THEN "high" ELSE "low") >>,
                      fixes |-> << Fix_NET >>]
                ELSE [paths |-> << >>, fixes |-> << >>]
        over30 == Over30Days(expiry, now)
        replay == IF Truthy(expiry) /\ over30 /\ auth
                  THEN [paths |-> << AttackPath("REPLAY", "medium") >>,
                        fixes |-> << Fix_REPLAY >>]
                  ELSE [paths |-> << >>, fixes |-> << >>]
    IN
    IF domain.k # "str" THEN Raised("AttributeError", 92)
    ELSE IF sub_hit /\ name.k # "str" THEN Raised("AttributeError", 117)
    ELSE
    LET paths == xss.paths \o csrf.paths \o sub.paths \o net.paths \o replay.paths
        fixes == xss.fixes \o csrf.fixes \o sub.fixes \o net.fixes \o replay.fixes
        overall == IF auth /\ Len(paths) >= 2 THEN "CRITICAL"
                   ELSE IF auth /\ Len(paths) = 1 THEN "HIGH"
                   ELSE IF paths # << >> THEN "MODERATE"
                   ELSE "LOW"
    IN  [status |-> "ok",
         paths |-> paths,
         path_count |-> Len(paths),
         overall_risk |-> overall,
         impact |-> summarize_impact(paths, auth),
         fixes |-> Dedup(fixes, {}),
         attack_surface_score |-> AttackSurfaceScore(Len(paths))]

(***************************************************************************)
(* explainability.py                                                       *)
(***************************************************************************)
AUTH_SIGNAL_MAP ==
    << "name_matches_auth", "f_changed_during_login", "f_new_after_login",
       "f_rotated_after_login", "has_httponly", "has_secure", "is_session_cookie",
       "value_looks_like_jwt", "value_entropy_bucket", "value_looks_like_hex",
       "value_length_bucket", "has_host_prefix", "has_secure_prefix",
       "f_login_behavior_score" >>
RISK_SIGNAL_MAP ==
    << "cross_site_sendable", "domain_is_wildcard", "f_subdomain_shared",
       "f_third_party_context", "exposure_score", "f_persistent_days_bucket" >>
TRACKING_SIGNAL_MAP == << "name_matches_tracking", "f_third_party_context" >>

\* _is_active(feat_name, value); exposure_score is the only float feature
is_active(feat_name, features) ==
    IF feat_name = "exposure_score"
    THEN FLess(F_1_5, Feat(features, feat_name, FInt(0)))
    ELSE LET value == Feat(features, feat_name, 0)
         IN  IF feat_name \in {"value_entropy_bucket", "value_length_bucket"}
             THEN value >= 2
             ELSE IF feat_name = "f_persistent_days_bucket" THEN value >= 3
             ELSE IF feat_name = "f_login_behavior_score" THEN value >= 2
             ELSE value > 0

\* the features of a signal map that are active, in map order
RECURSIVE ActiveSignals(_, _)
ActiveSignals(map, features) ==
    IF map = << >> THEN << >>
    ELSE (IF is_active(map[1], features) THEN << map[1] >> ELSE << >>)
         \o ActiveSignals(Tail(map), features)

\* lst[:n]
Take(lst, n) == SubSeq(lst, 1, IF Len(lst) < n THEN Len(lst) ELSE n)

\* severity_point_map, in dict order
severity_point_map ==
    << [pattern |-> << "httponly" >>,            pts |-> 40],
       [pattern |-> << "secure", "flag" >>,      pts |-> 25],
       [pattern |-> << "samesite" >>,            pts |-> 20],
       [pattern |-> << "wildcard", "domain" >>,  pts |-> 15],
       [pattern |-> << "long-lived" >>,          pts |-> 10],
       [pattern |-> << "moderate", "session" >>, pts |-> 5],
       [pattern |-> << "multi-day" >>,           pts |-> 3],
       [pattern |-> << "broad", "path" >>,       pts |-> 5],
       [pattern |-> << "non-host-only" >>,       pts |-> 6],
       [pattern |-> << "shared", "cookie" >>,    pts |-> 4] >>

\* pattern in title_lower
InTitle(pattern, title_lower) ==
    \E i \in 1..(Len(title_lower) - Len(pattern) + 1) :
        SubSeq(title_lower, i, i + Len(pattern) - 1) = pattern

\* the points of the first pattern that matches the title, 0 when none does
RECURSIVE TitlePoints(_, _)
TitlePoints(title_lower, map) ==
    IF map = << >> THEN 0
    ELSE IF InTitle(map[1].pattern, title_lower) THEN map[1].pts
    ELSE TitlePoints(title_lower, Tail(map))

RECURSIVE SeverityPoints(_)
SeverityPoints(risk_issues) ==
    IF risk_issues = << >> THEN 0
    ELSE TitlePoints(Lower(risk_issues[1].title), severity_point_map)
         + SeverityPoints(Tail(risk_issues))

\* round(x, 2): the double nearest to x rounded to hundredths
FRound2(x) ==
    LET n == BigMulSmall(x.m, 100)
        s == 0 - x.e
        q == BigShr(n, s)
        up == BigBit(n, s - 1) = 1 /\ (BigLowNonZero(n, s - 1) \/ BigBit(q, 0) = 1)
    IN  IF x.e >= 0 THEN x
        ELSE FDivInt(BigToNat(q) + (IF up THEN 1 ELSE 0), 100)

interpret_risk(auth_prob, severity_points, exposure_multiplier) ==
    LET estimated == IF auth_prob > 30
                     THEN FTrunc(FMul(FInt(severity_points), exposure_multiplier))
                     ELSE 0
    IN  IF auth_prob > 70 /\ estimated >= 50 THEN "auth_critical_gaps"
        ELSE IF auth_prob > 70 /\ estimated >= 30 THEN "auth_significant_gaps"
        ELSE IF auth_prob > 70 /\ estimated < 15 THEN "auth_good_posture"
        ELSE IF auth_prob > 30 /\ estimated >= 30 THEN "possible_auth_elevated"
        ELSE IF auth_prob > 30 /\ estimated > 0 THEN "possible_auth_moderate"
        ELSE IF auth_prob <= 30 THEN "low_auth_probability"
        ELSE "minimal_concerns"

explain_prediction(features, classification_type, classification_probs, risk_severity, risk_issues) ==
    LET auth_prob == classification_probs["authentication"]
        auth_signals ==
            IF classification_type = "authentication" \/ auth_prob > 30
            THEN ActiveSignals(AUTH_SIGNAL_MAP, features) ELSE << >>
        tracking_signals ==
            IF classification_type = "tracking" \/ classification_probs["tracking"] > 30
            THEN ActiveSignals(TRACKING_SIGNAL_MAP, features) ELSE << >>
        severity_points == SeverityPoints(risk_issues)
        breadth  == IF Feat(features, "domain_is_wildcard", 0) # 0
                    THEN F_1_5 ELSE F_1_0
        expiry_days == Feat(features, "expiry_days", 0)
        lifetime == IF Feat(features, "is_session_cookie", 0) # 0 THEN FInt(1)
                    ELSE lifetime_factor_of(expiry_days)
    IN  [status |-> "ok",
         auth_signals |-> Take(auth_signals, 5),
         risk_signals |-> Take(ActiveSignals(RISK_SIGNAL_MAP, features), 3),
         tracking_signals |-> Take(tracking_signals, 3),
         auth_gate |-> auth_prob,
         severity_points |-> severity_points,
         breadth_factor |-> FRound2(breadth),
         lifetime_factor |-> FRound2(lifetime),
         estimated_score |->
             (IF auth_prob > 30
              THEN FTrunc(FMul(FMul(FInt(severity_points), breadth), lifetime))
              ELSE 0),
         interpretation |->
             interpret_risk(auth_prob, severity_points, FMul(breadth, lifetime))]

(***************************************************************************)
(* The analysis of one cookie as app.py and demo.py drive it:              *)
(* extract_features -> classifier -> analyze_cookie, then the two derived  *)
(* views explain_prediction and simulate_attacks in either order.          *)
(***************************************************************************)
VARIABLES cookie, site_host, context, now, pc, features, ml, analysis,
          explanation, simulation,
          classifier, batch, results, ranked_from, response, again

vars == << cookie, site_host, context, now, pc, features, ml, analysis,
           explanation, simulation, classifier, batch, results, ranked_from,
           response, again >>

NoResult == [status |-> "none"]

\* the request handler's state: the module-level classifier, the cookies of
\* the request, the per-cookie results before ranking and the HTTP response;
\* ranked_from is the list handed to rank_cookies_by_risk, after the call;
\* again is the result of a repeated extract_features call
appvars == << classifier, batch, results, ranked_from, response, again >>

\* no request in hand, the classifier loaded
AppIdle ==
    /\ classifier = "loaded"
    /\ batch = Absent
    /\ results = << >>
    /\ ranked_from = << >>
    /\ response = NoResult
    /\ again = NoResult

CookieKeys ==
    {"name", "domain", "path", "secure", "httpOnly", "sameSite", "expirationDate",
     "value", "hostOnly", "HttpOnly", "httponly", "http_only", "Secure",
     "changed_during_login", "new_after_login", "rotated_after_login", "third_party"}

\* the dict with exactly the given keys
MkCookie(fields) ==
    [key \in CookieKeys |-> IF key \in DOMAIN fields THEN fields[key] ELSE Absent]

\* dict(cookie, key=v)
With(c, key, v) == [c EXCEPT ![key] = v]

\* the clock of the run, in half days, and the far expiry sample, in days
ClockStart == 40
FarDays    == 400

\* expirationDate values: half days from now (past, 2, 3, 7.5, 8, 30.5, 31,
\* 73, 365 and FarDays days ahead)
ExpiryOffsets == {0 - 3, 5, 6, 15, 16, 61, 62, 146, 730, 2 * FarDays}

Expiries(clock) == {Num(clock + o) : o \in ExpiryOffsets}

\* what the statistical classifier (a black box) can answer, in percent
ClassifierOutcomes ==
    { [status |-> "ok", type |-> "authentication", confidence |-> 90,
       probabilities |-> [authentication |-> 90, tracking |-> 5, preference |-> 3, other |-> 2]],
      [status |-> "ok", type |-> "tracking", confidence |-> 40,
       probabilities |-> [authentication |-> 31, tracking |-> 40, preference |-> 19, other |-> 10]],
      [status |-> "ok", type |-> "preference", confidence |-> 50,
       probabilities |-> [authentication |-> 30, tracking |-> 10, preference |-> 50, other |-> 10]],
      [status |-> "ok", type |-> "other", confidence |-> 80,
       probabilities |-> [authentication |-> 5, tracking |-> 10, preference |-> 5, other |-> 80]] }

Names   == { << "sid" >>, << "__Host-", "sid" >>, << "Shared", "sid" >>,
             << "__Host-", "global" >> }
Domains == { << ".", "bank.com" >>, << "bank.com" >>, << "api", ".", "bank.com" >>,
             << "localhost" >> }
Paths   == { << "/" >>, << "/", "app" >> }

\* every combination of name, scope and flags; session cookie or 73 days left
ScopeGrid(clock) ==
    { MkCookie([name |-> Str(n), domain |-> Str(d), path |-> Str(p), hostOnly |-> h,
                httpOnly |-> Bool(ho), secure |-> Bool(se), sameSite |-> ss,
                expirationDate |-> e]) :
        n \in Names, d \in Domains, p \in Paths,
        h \in {Absent, None, Bool(TRUE), Bool(FALSE)},
        ho \in BOOLEAN, se \in BOOLEAN, ss \in {Str(<< "Lax" >>), None},
        e \in {Absent, Num(clock + 146)} }

\* every lifetime against the flags
LifetimeGrid(clock) ==
    { MkCookie([name |-> Str(<< "sid" >>), domain |-> Str(d), path |-> Str(p),
                httpOnly |-> Bool(ho), secure |-> Bool(se), sameSite |-> ss,
                expirationDate |-> e]) :
        d \in {<< ".", "bank.com" >>, << "bank.com" >>}, p \in Paths,
        ho \in BOOLEAN, se \in BOOLEAN,
        ss \in {Str(<< "Strict" >>), Str(<< "None" >>), Str(<< "no_restriction" >>)},
        e \in Expiries(clock) }

\* the wildcard-domain scenario: only the named fields are supplied
WildcardScenario ==
    { MkCookie([domain |-> Str(<< ".", "bank.com" >>), httpOnly |-> Bool(FALSE),
                secure |-> Bool(TRUE), sameSite |-> ss]) :
        ss \in {None, Str(<< "None" >>)} }

InitWith(cookies, clock) ==
    /\ now = clock
    /\ cookie \in cookies
    /\ site_host \in {None, Str(<< "bank.com" >>)}
    /\ context = EmptyContext
    /\ pc = "start"
    /\ features = NoResult
    /\ ml = NoResult
    /\ analysis = NoResult
    /\ explanation = NoResult
    /\ simulation = NoResult
    /\ AppIdle

Init == InitWith(ScopeGrid(ClockStart) \cup LifetimeGrid(ClockStart)
                 \cup WildcardScenario, ClockStart)

\* app.py line 189
ExtractFeatures ==
    /\ pc = "start"
    /\ features' = extract_features(cookie, context, now)
    /\ pc' = IF features'.status = "raised" THEN "error" ELSE "extracted"
    /\ UNCHANGED << cookie, site_host, context, now, ml, analysis, explanation, simulation >>
    /\ UNCHANGED appvars

\* app.py line 192
Classify ==
    /\ pc = "extracted"
    /\ ml' \in ClassifierOutcomes
    /\ pc' = "classified"
    /\ UNCHANGED << cookie, site_host, context, now, features, analysis, explanation,
                    simulation >>
    /\ UNCHANGED appvars

\* app.py lines 195-199
AnalyzeCookie ==
    /\ pc = "classified"
    /\ analysis' = analyze_cookie(cookie, ml.type, ml.confidence, ml.probabilities,
                                  site_host, now)
    /\ pc' = IF analysis'.status = "raised" THEN "error" ELSE "scored"
    /\ UNCHANGED << cookie, site_host, context, now, features, ml, explanation, simulation >>
    /\ UNCHANGED appvars

ExplainPrediction ==
    /\ pc = "scored"
    /\ explanation.status = "none"
    /\ explanation' = explain_prediction(features, ml.type, ml.probabilities,
                                         analysis.severity, analysis.issues)
    /\ UNCHANGED << cookie, site_host, context, now, pc, features, ml, analysis, simulation >>
    /\ UNCHANGED appvars

SimulateAttacks ==
    /\ pc = "scored"
    /\ simulation.status = "none"
    /\ simulation' = simulate_attacks(cookie, ml.type, analysis.severity, analysis.issues,
                                      features, now)
    /\ UNCHANGED << cookie, site_host, context, now, pc, features, ml, analysis, explanation >>
    /\ UNCHANGED appvars

Next ==
    \/ ExtractFeatures
    \/ Classify
    \/ AnalyzeCookie
    \/ ExplainPrediction
    \/ SimulateAttacks

Spec == Init /\ [][Next]_vars

(***************************************************************************)
(* The four functions called directly on sparse cookies                    *)
(***************************************************************************)
Sparse(v) == {Absent, None, v}

\* name, domain, path, expirationDate and hostOnly each missing, None or
\* supplied; the remaining fields all missing, all None or all supplied
SparseCookies(clock) ==
    { MkCookie([name |-> n, domain |-> d, path |-> p, expirationDate |-> e,
                hostOnly |-> h, secure |-> r[1], httpOnly |-> r[2], sameSite |-> r[3],
                value |-> r[4]]) :
        n \in Sparse(Str(<< "sid" >>)), d \in Sparse(Str(<< ".", "bank.com" >>)),
        p \in Sparse(Str(<< "/" >>)), e \in Sparse(Num(clock + 146)),
        h \in Sparse(Bool(FALSE)),
        r \in { << Absent, Absent, Absent, Absent >>, << None, None, None, None >>,
                << Bool(TRUE), Bool(TRUE), Str(<< "Lax" >>), Str(<< "abc123" >>) >> } }

InitSparse ==
    /\ now = ClockStart
    /\ cookie \in SparseCookies(ClockStart)
    /\ site_host = None
    /\ context = EmptyContext
    /\ pc = "sparse"
    /\ features = NoResult
    /\ ml \in {m \in ClassifierOutcomes : m.type \in {"authentication", "other"}}
    /\ analysis = NoResult
    /\ explanation = NoResult
    /\ simulation = NoResult
    /\ AppIdle

\* extractor.extract_features(cookie)
CallExtract ==
    /\ pc = "sparse"
    /\ features.status = "none"
    /\ features' = extract_features(cookie, context, now)
    /\ UNCHANGED << cookie, site_host, context, now, pc, ml, analysis, explanation,
                    simulation >>
    /\ UNCHANGED appvars

\* scorer.analyze_cookie(cookie, type, confidence, probabilities)
CallAnalyze ==
    /\ pc = "sparse"
    /\ analysis.status = "none"
    /\ analysis' = analyze_cookie(cookie, ml.type, ml.confidence, ml.probabilities,
                                  site_host, now)
    /\ UNCHANGED << cookie, site_host, context, now, pc, features, ml, explanation,
                    simulation >>
    /\ UNCHANGED appvars

\* explain_prediction on the features and the issues of the two calls above
CallExplain ==
    /\ pc = "sparse"
    /\ explanation.status = "none"
    /\ features.status = "ok"
    /\ analysis.status = "ok"
    /\ explanation' = explain_prediction(features, ml.type, ml.probabilities,
                                         analysis.severity, analysis.issues)
    /\ UNCHANGED << cookie, site_host, context, now, pc, features, ml, analysis,
                    simulation >>
    /\ UNCHANGED appvars

\* simulate_attacks(cookie, type, severity, issues, features); features=None
\* when there are none
CallSimulate ==
    /\ pc = "sparse"
    /\ simulation.status = "none"
    /\ features.status # "none"
    /\ analysis.status = "ok"
    /\ simulation' = simulate_attacks(cookie, ml.type, analysis.severity,
                                      analysis.issues, features, now)
    /\ UNCHANGED << cookie, site_host, context, now, pc, features, ml, analysis,
                    explanation >>
    /\ UNCHANGED appvars

NextSparse ==
    \/ CallExtract
    \/ CallAnalyze
    \/ CallExplain
    \/ CallSimulate

SpecSparse == InitSparse /\ [][NextSparse]_vars

(***************************************************************************)
(* extract_features, analyze_cookie and simulate_attacks called directly   *)
(* on cookies that vary attribute by attribute                             *)
(***************************************************************************)
SameSiteValues ==
    {Absent, None, Str(<< >>), Str(<< "Lax" >>), Str(<< "Strict" >>), Str(<< "None" >>),
     Str(<< "no_restriction" >>), Str(<< "Foo" >>)}

\* expirationDate: missing, the epoch, 1.5 days ago, 30, 30.5 and FarDays
\* days ahead as numbers, and FarDays days ahead as an ISO string
AttrExpiries(clock) ==
    {Absent, Num(0), Num(clock - 3), Num(clock + 60), Num(clock + 61),
     Num(clock + 2 * FarDays), Iso(clock + 2 * FarDays)}

AttrGrid(clock) ==
    { MkCookie([name |-> Str(n), domain |-> d, httpOnly |-> ho, secure |-> Bool(se),
                sameSite |-> ss, expirationDate |-> e, hostOnly |-> h]) :
        n \in {<< "sid" >>, << "__Host-", "sid" >>},
        d \in {Absent, Str(<< ".", "bank.com" >>), Str(<< "bank.com" >>)},
        ho \in {Absent, Bool(TRUE), Bool(FALSE)}, se \in BOOLEAN,
        ss \in SameSiteValues, e \in AttrExpiries(clock),
        h \in {Absent, Bool(FALSE)} }

InitAttrs ==
    /\ now = ClockStart
    /\ cookie \in AttrGrid(ClockStart)
    /\ site_host = None
    /\ context = EmptyContext
    /\ pc = "attrs"
    /\ features = NoResult
    /\ ml \in {m \in ClassifierOutcomes : m.type \in {"authentication", "other"}}
    /\ analysis = NoResult
    /\ explanation = NoResult
    /\ simulation = NoResult
    /\ AppIdle

\* extractor.extract_features(cookie)
AttrsExtract ==
    /\ pc = "attrs"
    /\ features.status = "none"
    /\ features' = extract_features(cookie, context, now)
    /\ UNCHANGED << cookie, site_host, context, now, pc, ml, analysis, explanation,
                    simulation >>
    /\ UNCHANGED appvars

\* scorer.analyze_cookie(cookie, type, confidence, probabilities)
AttrsAnalyze ==
    /\ pc = "attrs"
    /\ analysis.status = "none"
    /\ analysis' = analyze_cookie(cookie, ml.type, ml.confidence, ml.probabilities,
                                  site_host, now)
    /\ UNCHANGED << cookie, site_host, context, now, pc, features, ml, explanation,
                    simulation >>
    /\ UNCHANGED appvars

\* simulate_attacks(cookie, type, severity, issues, features): the caller
\* passes severity 'info', no issues and features=None, or what the calls
\* above returned
AttrsSimulate ==
    /\ pc = "attrs"
    /\ simulation' = simulate_attacks(cookie, ml.type,
                         IF analysis.status = "ok" THEN analysis.severity ELSE INFO,
                         IF analysis.status = "ok" THEN analysis.issues ELSE << >>,
                         features, now)
    /\ pc' = "simulated"
    /\ UNCHANGED << cookie, site_host, context, now, features, ml, analysis,
                    explanation >>
    /\ UNCHANGED appvars

NextAttrs ==
    \/ AttrsExtract
    \/ AttrsAnalyze
    \/ AttrsSimulate

SpecAttrs == InitAttrs /\ [][NextAttrs]_vars

(***************************************************************************)
(* app.py: normalize_cookie, load_model and the /api/analyze handler       *)
(***************************************************************************)
\* bool(_coerce_bool(v))
BoolOf(v) == Bool(Truthy(coerce_bool(v)))

\* key_map: the first alternate spelling present fills a missing canonical key
\* (the request cookies of the model carry at most one alternate spelling)
RECURSIVE CopyAlternate(_, _, _)
CopyAlternate(c, alternates, canonical) ==
    IF alternates = << >> \/ c[canonical].k # "absent" THEN c
    ELSE IF c[alternates[1]].k # "absent" THEN With(c, canonical, c[alternates[1]])
    ELSE CopyAlternate(c, Tail(alternates), canonical)

\* Chrome strings -> RFC labels; any other string is kept as it is
SameSiteLabel(ss) ==
    IF ss.k # "str" THEN ss
    ELSE IF Lower(ss.s) \in {<< "no_restriction" >>, << "none" >>} THEN Str(<< "None" >>)
    ELSE IF Lower(ss.s) = << "lax" >> THEN Str(<< "Lax" >>)
    ELSE IF Lower(ss.s) = << "strict" >> THEN Str(<< "Strict" >>)
    ELSE ss

normalize_cookie(raw) ==
    LET c1 == CopyAlternate(raw, << "HttpOnly", "httponly", "http_only" >>, "httpOnly")
        c2 == CopyAlternate(c1, << "Secure" >>, "secure")
        c3 == IF c2["httpOnly"].k # "absent"
              THEN With(c2, "httpOnly", BoolOf(c2["httpOnly"])) ELSE c2
        c4 == IF c3["secure"].k # "absent"
              THEN With(c3, "secure", BoolOf(c3["secure"])) ELSE c3
        c5 == IF c4["hostOnly"].k \notin {"absent", "none"}
              THEN With(c4, "hostOnly", BoolOf(c4["hostOnly"])) ELSE c4
    IN  With(c5, "sameSite", SameSiteLabel(c5["sameSite"]))

\* key = (c.get('name'), c.get('domain'), c.get('path'))
CookieKey(c) == << GetOrNone(c, "name"), GetOrNone(c, "domain"), GetOrNone(c, "path") >>

\* a loop that lets a later cookie of the same key replace the earlier one
RECURSIVE Deduplicate_KeepLast(_, _)
Deduplicate_KeepLast(normalized, seen) ==
    IF normalized = << >> THEN << >>
    ELSE IF \E i \in 2..Len(normalized) : CookieKey(normalized[i]) = CookieKey(Head(normalized))
    THEN Deduplicate_KeepLast(Tail(normalized), seen)
    ELSE << Head(normalized) >> \o Deduplicate_KeepLast(Tail(normalized), seen)

\* the de-duplication loop: the first cookie of each key is kept
RECURSIVE Deduplicate(_, _)
Deduplicate(normalized, seen) ==
    IF normalized = << >> THEN << >>
    ELSE IF CookieKey(Head(normalized)) \in seen THEN Deduplicate(Tail(normalized), seen)
    ELSE << Head(normalized) >>
             \o Deduplicate(Tail(normalized), seen \cup {CookieKey(Head(normalized))})

Normalized(cookies) == [i \in 1..Len(cookies) |-> normalize_cookie(cookies[i])]

\* the sort key (score, probabilities.get('authentication', 0)), compared
\* as Python compares tuples
RankKeyLess(a, b) ==
    \/ a.score < b.score
    \/ /\ a.score = b.score
       /\ a.ml_classification.probabilities.authentication
              < b.ml_classification.probabilities.authentication

\* sorted(..., reverse=True) is stable: x goes after every element whose key
\* is not lower than its own
RECURSIVE InsertRanked(_, _)
InsertRanked(sorted, x) ==
    IF sorted = << >> THEN << x >>
    ELSE IF RankKeyLess(Head(sorted), x) THEN << x >> \o sorted
    ELSE << Head(sorted) >> \o InsertRanked(Tail(sorted), x)

RECURSIVE SortedDescending(_, _)
SortedDescending(done, rest) ==
    IF rest = << >> THEN done
    ELSE SortedDescending(InsertRanked(done, Head(rest)), Tail(rest))

\* an in-place list.sort would return nothing new and reorder its argument
rank_cookies_by_risk_InPlace(analyses) ==
    [returned |-> SortedDescending(<< >>, analyses),
     analyses |-> SortedDescending(<< >>, analyses)]

\* rank_cookies_by_risk(analyses): the list returned, and the argument list
\* as the call leaves it (sorted() builds a new list)
rank_cookies_by_risk(analyses) ==
    [returned |-> SortedDescending(<< >>, analyses), analyses |-> analyses]

CountSeverity(rs, sev) == Cardinality({i \in 1..Len(rs) : rs[i].severity = sev})

\* the loop body for one cookie, given what the classifier answers for it
AnalyzeOne(c, host, m, clock) ==
    LET f == extract_features(c, EmptyContext, clock)
    IN  IF f.status = "raised" THEN f
        ELSE analyze_cookie(c, m.type, m.confidence, m.probabilities, host, clock)

ErrorResponse(code, error) == [status |-> "ok", code |-> code, error |-> error]

Failed(code, error) ==
    [response |-> ErrorResponse(code, error), results |-> << >>, analyses |-> << >>]

\* lines 202-223: the ranked results with the severity counts
Answer(cookies, loop, ranking) ==
    [response |->
         [status |-> "ok", code |-> 200, results |-> ranking.returned,
          summary_stats |->
              [total_cookies |-> Len(cookies),
               critical |-> CountSeverity(ranking.returned, CRITICAL),
               high     |-> CountSeverity(ranking.returned, HIGH),
               medium   |-> CountSeverity(ranking.returned, MEDIUM),
               low      |-> CountSeverity(ranking.returned, LOW),
               info     |-> CountSeverity(ranking.returned, INFO)]],
     results |-> loop, analyses |-> ranking.analyses]

\* lines 186-226: an exception in the loop is answered with 500
Ranking(cookies, loop) ==
    IF \E i \in 1..Len(loop) : loop[i].status = "raised"
    THEN Failed(500, "exception")
    ELSE Answer(cookies, loop, rank_cookies_by_risk(loop))

\* variant: the loop body analysing the cookie of the previous iteration
Loop_StaleCookie(cookies, host, answers, clock) ==
    IF cookies = << >> THEN Failed(400, "No cookies provided")
    ELSE Ranking(cookies,
                 [i \in 1..Len(cookies) |->
                     AnalyzeOne(cookies[IF i > 1 THEN i - 1 ELSE i], host, answers[i], clock)])

\* lines 182-199: no cookie left is answered with 400, else the loop runs
Loop(cookies, host, answers, clock) ==
    IF cookies = << >> THEN Failed(400, "No cookies provided")
    ELSE Ranking(cookies,
                 [i \in 1..Len(cookies) |-> AnalyzeOne(cookies[i], host, answers[i], clock)])

\* data.get('cookies', []): a missing entry reads as the empty list; null is
\* returned as it is and the list comprehension of line 172 raises on it
CookiesOf(request) == IF request.k = "list" THEN request.items ELSE << >>

\* what the handler has to hand at its return: the response, the list the
\* loop built, and that list object as the ranking call left it
analyze_cookies(loaded, request, host, answers, clock) ==
    IF ~loaded THEN Failed(500, "Model not loaded")
    ELSE IF request.k = "none" THEN Failed(500, "exception")
    ELSE Loop(Deduplicate(Normalized(CookiesOf(request)), {}), host, answers, clock)

MaxBatch == 3

\* request cookies: three names, httpOnly false or spelled HttpOnly:'true';
\* cookies of one name share the key (name, domain, path)
RequestCookies ==
    { MkCookie([name |-> Str(<< p[1] >>), domain |-> Str(<< "bank.com" >>),
                path |-> Str(<< "/" >>), secure |-> Bool(TRUE),
                sameSite |-> Str(<< "lax" >>)] @@ p[2]) :
        p \in {<< "sid", [httpOnly |-> Bool(FALSE)] >>,
               << "sid", [HttpOnly |-> Str(<< "true" >>)] >>,
               << "prefs", [httpOnly |-> Bool(FALSE)] >>,
               << "theme", [httpOnly |-> Bool(FALSE)] >>} }

\* a JSON list
List(items) == [k |-> "list", items |-> items]

\* the 'cookies' entry of the request body: missing, null, or a list of up
\* to MaxBatch cookies
Batches ==
    {Absent, None} \cup {List(b) : b \in UNION { [1..n -> RequestCookies] : n \in 0..MaxBatch }}

\* the module as imported (classifier = None), one request waiting
InitApp ==
    /\ now = ClockStart
    /\ cookie = MkCookie(<< >>)
    /\ site_host \in {None, Str(<< "bank.com" >>)}
    /\ context = EmptyContext
    /\ pc = "app"
    /\ features = NoResult
    /\ ml = NoResult
    /\ analysis = NoResult
    /\ explanation = NoResult
    /\ simulation = NoResult
    /\ classifier = "none"
    /\ batch \in Batches
    /\ results = << >>
    /\ ranked_from = << >>
    /\ response = NoResult
    /\ again = NoResult

\* load_model(): the model file is read, or is missing or unreadable
LoadModel ==
    /\ pc = "app"
    /\ classifier = "none"
    /\ response = NoResult
    /\ classifier' \in {"none", "loaded"}
    /\ pc' = "serving"
    /\ UNCHANGED << cookie, site_host, context, now, features, ml, analysis,
                    explanation, simulation, batch, results, ranked_from, response,
                    again >>

\* POST /api/analyze, the whole handler
AnalyzeCookies ==
    /\ pc \in {"app", "serving"}
    /\ response = NoResult
    /\ \E answers \in [1..Len(Deduplicate(Normalized(CookiesOf(batch)), {}))
                          -> ClassifierOutcomes] :
           \E handled \in {analyze_cookies(classifier = "loaded", batch, site_host,
                                            answers, now)} :
               /\ response' = handled.response
               /\ results' = handled.results
               /\ ranked_from' = handled.analyses
    /\ pc' = "answered"
    /\ UNCHANGED << cookie, site_host, context, now, features, ml, analysis,
                    explanation, simulation, classifier, batch, again >>

NextApp ==
    \/ LoadModel
    \/ AnalyzeCookies

SpecApp == InitApp /\ [][NextApp]_vars

(***************************************************************************)
(* extract_features called, and called again, on cookies with and without  *)
(* embedded behaviour fields, under varying login contexts                 *)
(***************************************************************************)
BehaviourValues == {Absent, Num(0), Num(1)}

LoginCookies ==
    { MkCookie([name |-> Str(<< "sid" >>), domain |-> Str(<< "bank.com" >>),
                changed_during_login |-> c, new_after_login |-> n,
                rotated_after_login |-> r, third_party |-> t]) :
        c \in BehaviourValues, n \in BehaviourValues, r \in {Absent, Num(1)},
        t \in {Absent, Num(1)} }

\* the index maps a name to {'present': bool}
BeforeIndexes ==
    { << >>, << [name |-> << "sid" >>, present |-> TRUE] >>,
      << [name |-> << "sid" >>, present |-> FALSE] >>,
      << [name |-> << "theme" >>, present |-> TRUE] >> }

LoginContexts ==
    [loginEvent : BOOLEAN, changedCookies : {{}, {<< "sid" >>}, {<< "theme" >>}},
     beforeCookieIndex : BeforeIndexes, currentDomain : {<< >>, << "shop.com" >>}]

InitLogin ==
    /\ now = ClockStart
    /\ cookie \in LoginCookies
    /\ site_host = None
    /\ context \in LoginContexts
    /\ pc = "login"
    /\ features = NoResult
    /\ ml = NoResult
    /\ analysis = NoResult
    /\ explanation = NoResult
    /\ simulation = NoResult
    /\ AppIdle

\* a second call that finds the name among those the extractor has seen
RepeatedCall_Remembering ==
    [extract_features(cookie, context, now) EXCEPT !.f_new_after_login = 0]

\* the same extractor object called once more on the same cookie and context
RepeatedCall == extract_features(cookie, context, now)

\* extractor.extract_features(cookie, context)
LoginExtract ==
    /\ pc = "login"
    /\ features.status = "none"
    /\ features' = extract_features(cookie, context, now)
    /\ UNCHANGED << cookie, site_host, context, now, pc, ml, analysis, explanation,
                    simulation >>
    /\ UNCHANGED appvars

\* extractor.extract_features(cookie, context) a second time
LoginExtractAgain ==
    /\ pc = "login"
    /\ features.status # "none"
    /\ again.status = "none"
    /\ again' = RepeatedCall
    /\ UNCHANGED << cookie, site_host, context, now, pc, features, ml, analysis,
                    explanation, simulation, classifier, batch, results, ranked_from,
                    response >>

NextLogin ==
    \/ LoginExtract
    \/ LoginExtractAgain

SpecLogin == InitLogin /\ [][NextLogin]_vars

(***************************************************************************)
(* analyze_cookie and simulate_attacks called directly on cookies whose    *)
(* flags vary in spelling and representation                               *)
(***************************************************************************)
\* what a caller may store under a flag key: None, booleans, numbers, the
\* strings of the two tuples in several cases and paddings, other strings,
\* and lists
FlagValues ==
    {None, Bool(TRUE), Bool(FALSE), Num(0), Num(1), List(<< >>), List(<< None >>)} \cup
    {Str(s) : s \in TrueStrings \cup FalseStrings} \cup
    {Str(<< >>), Str(<< " " >>), Str(<< "True" >>), Str(<< "False" >>),
     Str(<< " ", "false", " " >>), Str(<< " ", "on" >>), Str(<< "maybe" >>),
     Str(<< "n", "o" >>)}

\* one spelling carrying any value, or two spellings carrying booleans or None
Spellings(keys) ==
    {[key \in {k} |-> v] : k \in {keys[i] : i \in 1..Len(keys)}, v \in FlagValues} \cup
    UNION {{(keys[i] :> a) @@ (keys[j] :> b) : a, b \in {None, Bool(TRUE), Bool(FALSE)}} :
              i, j \in 1..Len(keys)}

\* a session cookie with one of its two flags in every form and the other
\* set or missing, and the expirationDate in the forms of AttrExpiries
FlagGrid(clock) ==
    { MkCookie(flags @@ [name |-> Str(<< "sid" >>), domain |-> Str(<< "bank.com" >>),
                         path |-> Str(<< "/", "app" >>), sameSite |-> Str(<< "Strict" >>)]
                     @@ rest) :
        flags \in {f @@ r : f \in Spellings(HttpOnlyKeys),
                            r \in {[secure |-> Bool(TRUE)], [Secure |-> Str(<< "n" >>)]}} \cup
                  {f @@ r : f \in Spellings(SecureKeys),
                            r \in {[httpOnly |-> Bool(TRUE)], [httponly |-> Num(0)]}},
        rest \in {[value |-> Str(<< "abc123" >>)]} } \cup
    { MkCookie([name |-> Str(<< "sid" >>), domain |-> Str(<< "bank.com" >>),
                path |-> Str(<< "/", "app" >>), sameSite |-> ss, httpOnly |-> ho,
                secure |-> se, expirationDate |-> e]) :
        ss \in {Absent, Str(<< "Lax" >>), Str(<< "None" >>)},
        ho \in {Bool(TRUE), Str(<< "false" >>)}, se \in {Bool(FALSE), Str(<< "true" >>)},
        e \in AttrExpiries(clock) }

InitFlags ==
    /\ now = ClockStart
    /\ cookie \in FlagGrid(ClockStart)
    /\ site_host = None
    /\ context = EmptyContext
    /\ pc = "flags"
    /\ features = NoResult
    /\ ml \in {m \in ClassifierOutcomes : m.type \in {"authentication", "other"}}
    /\ analysis = NoResult
    /\ explanation = NoResult
    /\ simulation = NoResult
    /\ AppIdle

\* scorer.analyze_cookie(cookie, type, confidence, probabilities)
FlagsAnalyze ==
    /\ pc = "flags"
    /\ analysis.status = "none"
    /\ analysis' = analyze_cookie(cookie, ml.type, ml.confidence, ml.probabilities,
                                  site_host, now)
    /\ UNCHANGED << cookie, site_host, context, now, pc, features, ml, explanation,
                    simulation >>
    /\ UNCHANGED appvars

\* simulate_attacks(cookie, type, severity, issues) on the scorer's result
FlagsSimulate ==
    /\ pc = "flags"
    /\ analysis.status = "ok"
    /\ simulation' = simulate_attacks(cookie, ml.type, analysis.severity, analysis.issues,
                                      features, now)
    /\ pc' = "simulated"
    /\ UNCHANGED << cookie, site_host, context, now, features, ml, analysis,
                    explanation >>
    /\ UNCHANGED appvars

NextFlags ==
    \/ FlagsAnalyze
    \/ FlagsSimulate

SpecFlags == InitFlags /\ [][NextFlags]_vars

(***************************************************************************)
(* Properties                                                              *)
(***************************************************************************)
Scored    == pc = "scored" /\ analysis.status = "ok"
Sensitive == Scored /\ analysis.sensitive
JustScored == Sensitive /\ explanation.status = "none" /\ simulation.status = "none"

TitlesOf(issues) == {issues[i].title : i \in 1..Len(issues)}
Listed(title)    == title \in TitlesOf(analysis.issues)

\* the points the specification documents for an issue title
DocPoints(title) ==
    CASE title = T_HttpOnly    -> 40
      [] title = T_Secure      -> 25
      [] title = T_SameSite    -> 20
      [] title = T_Wildcard    -> 15
      [] title = T_HostPrefix  -> 20
      [] title = T_NonHostOnly -> 6
      [] title = T_Shared      -> 4
      [] title = T_BroadPath   -> 5
      [] title = T_LongLived   -> 10
      [] title = T_Moderate    -> 5
      [] title = T_MultiDay    -> 3
      [] OTHER                 -> 0

RECURSIVE DocRawPoints(_)
DocRawPoints(issues) ==
    IF issues = << >> THEN 0
    ELSE DocPoints(issues[1].title) + DocRawPoints(Tail(issues))

\* the breadth multiplier of the scope branch the issue list shows
DocBreadth(issues) ==
    IF T_Wildcard \in TitlesOf(issues) THEN F_1_5
    ELSE IF T_HostPrefix \in TitlesOf(issues) THEN F_1_3
    ELSE IF T_NonHostOnly \in TitlesOf(issues) THEN F_1_15
    ELSE IF T_Shared \in TitlesOf(issues) THEN F_1_05
    ELSE F_1_0

\* the lifetime multiplier 1 + min(days/365, 1), 1.0 for a session cookie
DocLifetime(c, clock) ==
    IF Truthy(GetOrNone(c, "expirationDate"))
    THEN FAdd(FInt(1), FMin(FDivInt(DaysLeft(c["expirationDate"], clock), 365), FInt(1)))
    ELSE FInt(1)

\* C1: a cookie that is not of type authentication and has
\* P(authentication) <= 0.3 gets score 0, no issues and severity info,
\* whatever its flags, domain, path and expiry are.
C1_Gate ==
    (analysis.status # "none" /\ ml.type # "authentication"
        /\ ml.probabilities["authentication"] <= 30)
    => /\ analysis.status = "ok"
       /\ analysis.score = 0
       /\ analysis.issues = << >>
       /\ analysis.severity = "info"

C1_Witness ==
    /\ Scored
    /\ ml.type # "authentication" /\ ml.probabilities["authentication"] = 30
    /\ ~Truthy(cookie["httpOnly"]) /\ ~Truthy(cookie["secure"])
    /\ StartsWith(cookie["domain"].s, ".")
    /\ analysis.score = 0

\* C2 as stated: the score is int(P * B * L), the Python expression evaluated
\* left to right, P the documented points of the listed issues.
C2_Original ==
    Sensitive =>
        analysis.score =
            FTrunc(FMul(FMul(FInt(DocRawPoints(analysis.issues)),
                             DocBreadth(analysis.issues)),
                        DocLifetime(cookie, now)))

\* C2, what the code computes instead: int(P * (B * L)), the two multipliers
\* multiplied first and the points multiplied by that exposure.
C2_RoundTrip ==
    Sensitive =>
        analysis.score =
            FTrunc(FMul(FInt(DocRawPoints(analysis.issues)),
                        FMul(DocBreadth(analysis.issues), DocLifetime(cookie, now))))

\* C3 as stated: the score never exceeds max_score = 100.
C3_Original ==
    analysis.status = "ok" => analysis.score \in 0..100

\* C3 amended: the score is an integer from 0 to 345 (115 points times the
\* largest exposure 1.5 * 2.0); it is not capped at the reported max_score.
C3_ScoreRange ==
    analysis.status = "ok" =>
        /\ analysis.score \in 0..345
        /\ analysis.max_score = 100

C3_Witness == Scored /\ analysis.score = 345 /\ analysis.max_score = 100

ScenarioRun == Scored /\ cookie \in WildcardScenario /\ ml.type = "authentication"

IssueList(res) == [i \in 1..Len(res.issues) |->
                      << res.issues[i].severity, res.issues[i].title >>]

\* C4 as stated: the wildcard scenario accumulates 75 raw points in three
\* issues and scores int(75 * 1.5 * 1.0) = 112, critical.
C4_Original ==
    ScenarioRun =>
        /\ IssueList(analysis) = << << "critical", T_HttpOnly >>, << "high", T_SameSite >>,
                                    << "medium", T_Wildcard >> >>
        /\ analysis.raw_points = 75
        /\ FEq(analysis.breadth_factor, FDivInt(15, 10))
        /\ FEq(analysis.lifetime_factor, FInt(1))
        /\ analysis.score = 112
        /\ analysis.severity = "critical"

\* C4 amended: with no path supplied the path defaults to "/", so Broad
\* Path Scope (low, +5) fires as well: 80 raw points, score 120, critical.
C4_WildcardScenario ==
    ScenarioRun =>
        /\ IssueList(analysis) = << << "critical", T_HttpOnly >>, << "high", T_SameSite >>,
                                    << "medium", T_Wildcard >>, << "low", T_BroadPath >> >>
        /\ analysis.raw_points = 80
        /\ FEq(analysis.breadth_factor, FDivInt(15, 10))
        /\ FEq(analysis.lifetime_factor, FInt(1))
        /\ analysis.score = 120
        /\ analysis.severity = "critical"

C4_Witness == ScenarioRun /\ analysis.score > 100

\* the tier the specification documents for a final score
DocTier(score) ==
    CASE score >= 50 -> "critical"
      [] score \in 30..49 -> "high"
      [] score \in 15..29 -> "medium"
      [] score \in 1..14 -> "low"
      [] score = 0 -> "info"

SeverityRank(sev) ==
    CASE sev = "info" -> 0 [] sev = "low" -> 1 [] sev = "medium" -> 2
      [] sev = "high" -> 3 [] sev = "critical" -> 4

TierBoundaries ==
    /\ OverallSeverity(50) = "critical" /\ OverallSeverity(49) = "high"
    /\ OverallSeverity(30) = "high"     /\ OverallSeverity(29) = "medium"
    /\ OverallSeverity(15) = "medium"   /\ OverallSeverity(14) = "low"
    /\ OverallSeverity(1) = "low"       /\ OverallSeverity(0) = "info"

TierMonotone ==
    \A sc \in 0..345 :
        SeverityRank(OverallSeverity(sc)) <= SeverityRank(OverallSeverity(sc + 1))

\* C5: the overall severity is the documented tier of the final score, the
\* boundary scores 50, 30, 15, 1, 0 fall in critical, high, medium, low,
\* info, and a higher score never gets a less severe tier.
C5_Tiering ==
    /\ analysis.status = "ok" => analysis.severity = DocTier(analysis.score)
    /\ TierBoundaries
    /\ TierMonotone

C5_Witness == Scored /\ analysis.score = 30 /\ analysis.severity = "high"

\* the same classification and site, another cookie
Rescored(c) ==
    analyze_cookie(c, ml.type, ml.confidence, ml.probabilities, site_host, now)

HostOnlyFalse(c)   == c["hostOnly"].k = "bool" /\ ~c["hostOnly"].b
HostOnlyUnknown(c) == c["hostOnly"].k \in {"absent", "none"}
IsWildcard(c)      == c["domain"].k = "str" /\ StartsWith(c["domain"].s, ".")
HostPrefixed(c)    == c["name"].k = "str" /\ StartsWith(c["name"].s, "__Host-")

LongerExpiries(c) ==
    IF c["expirationDate"].k = "num"
    THEN {e \in Expiries(now) : e.n > c["expirationDate"].n}
    ELSE {}

\* the cookies that differ from c by one added violation
AddedViolations(c) ==
    (IF Truthy(c["httpOnly"]) THEN {With(c, "httpOnly", Bool(FALSE))} ELSE {})
    \cup (IF Truthy(c["secure"]) THEN {With(c, "secure", Bool(FALSE))} ELSE {})
    \cup (IF c["sameSite"] \in {Str(<< "Lax" >>), Str(<< "Strict" >>)}
          THEN {With(c, "sameSite", v) : v \in {Absent, None, Str(<< "None" >>)}}
          ELSE {})
    \cup {With(c, "expirationDate", e) : e \in LongerExpiries(c)}
    \cup (IF c["domain"].k = "str" /\ c["domain"].s # << >> /\ ~IsWildcard(c)
             /\ ~HostOnlyFalse(c)
          THEN {With(c, "domain", Str(<< "." >> \o c["domain"].s))}
          ELSE {})

\* C6: for a security-sensitive cookie a missing HttpOnly flag adds exactly
\* 40 raw points, and adding one violation (httpOnly or secure true->false,
\* sameSite Lax/Strict->None or absent, a longer expiry, host-only domain->
\* wildcard domain) with everything else fixed never lowers the final score.
C6_Monotone ==
    JustScored =>
        /\ Listed(T_HttpOnly) <=> ~Truthy(cookie["httpOnly"])
        /\ ~Truthy(cookie["httpOnly"]) =>
               analysis.raw_points
                   = Rescored(With(cookie, "httpOnly", Bool(TRUE))).raw_points + 40
        /\ \A c2 \in AddedViolations(cookie) : Rescored(c2).score >= analysis.score

C6_Witness ==
    /\ JustScored
    /\ ~Truthy(cookie["httpOnly"]) /\ Truthy(cookie["secure"])
    /\ cookie["sameSite"] = Str(<< "Strict" >>)
    /\ cookie["domain"] = Str(<< "bank.com" >>)
    /\ LongerExpiries(cookie) # {}
    /\ analysis.raw_points >= 40
    /\ \E c2 \in AddedViolations(cookie) : Rescored(c2).score > analysis.score

InfoIssues == {i \in 1..Len(analysis.issues) : analysis.issues[i].severity = "info"}

UnverifiableOnly ==
    /\ Cardinality(InfoIssues) = 1
    /\ \A i \in InfoIssues : analysis.issues[i].title = T_HostUnverifiable
    /\ analysis.raw_points = DocRawPoints(analysis.issues)
    /\ DocPoints(T_HostUnverifiable) = 0
    /\ FEq(analysis.breadth_factor, FInt(1))

\* C7 as stated: every security-sensitive __Host- cookie with hostOnly
\* omitted gets exactly one info issue, no points from it and breadth 1.0.
C7_Original ==
    (Sensitive /\ HostPrefixed(cookie) /\ cookie["hostOnly"].k = "absent")
    => UnverifiableOnly

\* C7 amended: a security-sensitive __Host- cookie with hostOnly omitted and
\* a domain that does not start with "." gets exactly one info issue,
\* "__Host- compliance not verifiable", which adds no points and leaves the
\* breadth multiplier at 1.0.
C7_HostPrefixUnverifiable ==
    (Sensitive /\ HostPrefixed(cookie) /\ cookie["hostOnly"].k = "absent"
        /\ ~IsWildcard(cookie))
    => UnverifiableOnly

C7_Witness ==
    /\ Sensitive /\ HostPrefixed(cookie) /\ cookie["hostOnly"].k = "absent"
    /\ ~IsWildcard(cookie)
    /\ Listed(T_HostUnverifiable)
    /\ analysis.raw_points > 0

\* C8: an unknown hostOnly (absent or None) is never treated as false: the
\* scorer lists "Non-host-only Domain Scope" or "__Host- prefix requires
\* host-only cookie" only when hostOnly is explicitly false, and with
\* hostOnly unknown f_subdomain_shared is 1 only for a domain starting ".".
C8_TriState ==
    /\ (analysis.status = "ok" /\ (Listed(T_NonHostOnly) \/ Listed(T_HostPrefix)))
       => HostOnlyFalse(cookie)
    /\ (features.status = "ok" /\ features.f_subdomain_shared = 1)
       => (IsWildcard(cookie) \/ HostOnlyFalse(cookie))
    /\ (features.status = "ok" /\ HostOnlyUnknown(cookie))
       => (features.f_subdomain_shared = 1 <=> IsWildcard(cookie))

C8_Witness ==
    /\ Sensitive
    /\ cookie["hostOnly"] = None
    /\ HostPrefixed(cookie) /\ ~IsWildcard(cookie)
    /\ features.f_subdomain_shared = 0
    /\ Listed(T_HostUnverifiable)

ScopeTitles == {T_Wildcard, T_HostPrefix, T_HostUnverifiable, T_NonHostOnly, T_Shared}

Branch(title, points, breadth) == [title |-> title, points |-> points, breadth |-> breadth]
NoScopeIssue == Branch(<< >>, 0, FInt(1))

NamedShared(c) ==
    /\ c["name"].k = "str"
    /\ Contains(Lower(c["name"].s), "shared") \/ Contains(Lower(c["name"].s), "global")

\* the branch order as the claim words it
StatedBranch(c, host) ==
    IF IsWildcard(c) THEN Branch(T_Wildcard, 15, FDivInt(15, 10))
    ELSE IF HostPrefixed(c) /\ HostOnlyFalse(c) THEN Branch(T_HostPrefix, 20, FDivInt(13, 10))
    ELSE IF HostPrefixed(c) /\ HostOnlyUnknown(c) THEN Branch(T_HostUnverifiable, 0, FInt(1))
    ELSE IF HostOnlyFalse(c) /\ Truthy(c["domain"])
    THEN (IF c["domain"] # host THEN Branch(T_NonHostOnly, 6, FDivInt(115, 100))
          ELSE NoScopeIssue)
    ELSE IF NamedShared(c) THEN Branch(T_Shared, 4, FDivInt(105, 100))
    ELSE NoScopeIssue

\* the branch order with the two cases the claim leaves out: a __Host- name
\* ends the chain, and localhost / 127.0.0.1 are not non-host-only domains
AmendedBranch(c, host) ==
    IF IsWildcard(c) THEN Branch(T_Wildcard, 15, FDivInt(15, 10))
    ELSE IF HostPrefixed(c) /\ HostOnlyFalse(c) THEN Branch(T_HostPrefix, 20, FDivInt(13, 10))
    ELSE IF HostPrefixed(c) /\ HostOnlyUnknown(c) THEN Branch(T_HostUnverifiable, 0, FInt(1))
    ELSE IF HostPrefixed(c) THEN NoScopeIssue
    ELSE IF HostOnlyFalse(c) /\ Truthy(c["domain"])
            /\ c["domain"].s \notin {<< "localhost" >>, << "127.0.0.1" >>}
    THEN (IF c["domain"] # host THEN Branch(T_NonHostOnly, 6, FDivInt(115, 100))
          ELSE NoScopeIssue)
    ELSE IF NamedShared(c) THEN Branch(T_Shared, 4, FDivInt(105, 100))
    ELSE NoScopeIssue

ScopeAgrees(branch) ==
    /\ Cardinality({i \in 1..Len(analysis.issues) :
                       analysis.issues[i].title \in ScopeTitles}) <= 1
    /\ Cardinality(TitlesOf(analysis.issues)) = Len(analysis.issues)
    /\ TitlesOf(analysis.issues) \cap ScopeTitles
           = (IF branch.title = << >> THEN {} ELSE {branch.title})
    /\ FEq(analysis.breadth_factor, branch.breadth)
    /\ analysis.raw_points = DocRawPoints(analysis.issues)
    /\ DocPoints(branch.title) = branch.points

\* C9 as stated: at most one scope issue, no title twice, and the branch is
\* the first that applies of wildcard, __Host- with hostOnly false, __Host-
\* with hostOnly unknown, hostOnly false with a Domain, shared/global name.
C9_Original ==
    Sensitive => ScopeAgrees(StatedBranch(cookie, site_host))

\* C9 amended: as stated, except that a __Host- name with hostOnly true ends
\* the chain with no issue (x1.0) instead of falling through, and the
\* non-host-only branch also needs a Domain other than localhost/127.0.0.1.
C9_ScopePrecedence ==
    Sensitive => ScopeAgrees(AmendedBranch(cookie, site_host))

C9_Witness ==
    /\ Sensitive
    /\ NamedShared(cookie) /\ HostOnlyFalse(cookie) /\ ~IsWildcard(cookie)
    /\ Listed(T_NonHostOnly) /\ ~Listed(T_Shared)

Results == << features, analysis, explanation, simulation >>

\* C10: for a cookie in which any subset of the fields is missing or None,
\* extract_features, analyze_cookie, explain_prediction and simulate_attacks
\* each return a result and never raise.
C10_NeverRaises ==
    \A i \in 1..Len(Results) : Results[i].status # "raised"

UnknownSameSite(c) ==
    /\ c["sameSite"].k = "str"
    /\ Lower(c["sameSite"].s)
           \notin {<< >>, << "strict" >>, << "lax" >>, << "none" >>, << "no_restriction" >>}

SameSiteUnset(c) == With(c, "sameSite", Absent)

\* simulate_attacks with the arguments the simulation in hand was given
Resimulated(c) ==
    simulate_attacks(c, ml.type,
                     IF analysis.status = "ok" THEN analysis.severity ELSE INFO,
                     IF analysis.status = "ok" THEN analysis.issues ELSE << >>,
                     features, now)

\* C11: a cookie whose sameSite is an unknown string gets, from the scorer,
\* the simulator and the extractor, what the same cookie without sameSite
\* gets: the Missing SameSite Protection issue (+20), the CSRF path,
\* cross_site_sendable and has_samesite.
C11_UnknownAsUnset ==
    UnknownSameSite(cookie) =>
        /\ analysis.status = "ok" => analysis = Rescored(SameSiteUnset(cookie))
        /\ features.status = "ok" =>
               LET unset == extract_features(SameSiteUnset(cookie), context, now)
               IN  /\ features.cross_site_sendable = unset.cross_site_sendable
                   /\ features.has_samesite = unset.has_samesite
        /\ simulation.status = "ok" => simulation = Resimulated(SameSiteUnset(cookie))

\* the cookies the handler analyses: normalised, first of each key kept
Submitted == Deduplicate(Normalized(CookiesOf(batch)), {})

\* C12: with no classifier loaded, a non-empty batch is answered with one
\* result per cookie (from a rule-based fallback), not with an error for
\* the whole batch.
C12_FallbackClassification ==
    (classifier = "none" /\ response.status = "ok" /\ Submitted # << >>) =>
        /\ response.code = 200
        /\ Len(response.results) = Len(Submitted)

Ranked == response.status = "ok" /\ response.code = 200

Occurrences(lst, x) == Cardinality({i \in 1..Len(lst) : lst[i] = x})

\* C13: rank_cookies_by_risk returns a permutation of the list it is given
\* (nothing dropped, nothing duplicated) in which no result comes after one
\* of strictly lower score, or of equal score and strictly lower
\* authentication probability; the list passed in is left as it was.
C13_Ranking ==
    Ranked =>
        /\ Len(response.results) = Len(results)
        /\ \A i \in 1..Len(results) :
               Occurrences(response.results, results[i]) = Occurrences(results, results[i])
        /\ \A i, j \in 1..Len(response.results) :
               i < j => ~RankKeyLess(response.results[i], response.results[j])
        /\ ranked_from = results

\* three results that ranking had to reorder, two of them tied on the score
\* and told apart by the authentication probability, one strictly lower
C13_Witness ==
    /\ Ranked
    /\ Len(results) = 3
    /\ response.results # results
    /\ ranked_from = results
    /\ \E i, j \in 1..3 :
           /\ i < j
           /\ results[i].score = results[j].score
           /\ RankKeyLess(results[i], results[j])
    /\ \E i, j \in 1..3 : results[i].score < results[j].score

Simulated == simulation.status = "ok"

IsAuthType == ml.type = "authentication"

PathsOfType(t) ==
    {simulation.paths[i] : i \in {k \in 1..Len(simulation.paths) : simulation.paths[k].type = t}}

\* the path of type t with severity sev when cond holds, no path of type t otherwise
Triggered(t, cond, sev) == PathsOfType(t) = IF cond THEN {AttackPath(t, sev)} ELSE {}

\* sameSite not set (missing, None, empty) or set to None, which Chrome
\* spells no_restriction
SameSiteOpen(c) ==
    LET v == GetOrNone(c, "sameSite")
    IN  \/ ~Truthy(v)
        \/ v.k = "str" /\ Lower(v.s) \in {<< "none" >>, << "no_restriction" >>}

FlagOff(c, key) == ~Truthy(Get(c, key, Bool(FALSE)))

DotDomain(c) == StartsWith(Get(c, "domain", Str(<< >>)).s, ".")

SharedFeature == features.status = "ok" /\ features.f_subdomain_shared # 0

\* the issues of a sensitive cookie that sets no flag at all
SomeIssues ==
    analyze_cookie(MkCookie([name |-> Str(<< "sid" >>)]), "authentication", 90,
                   [authentication |-> 90, tracking |-> 5, preference |-> 3, other |-> 2],
                   None, now).issues

\* C14: each attack path follows from the raw cookie attributes alone,
\* whatever risk_severity and risk_issues are passed, and no type appears
\* twice: XSS iff httpOnly is false (critical for authentication, else
\* medium), CSRF iff sameSite is not set or None (high, else low), NETWORK
\* iff secure is false (high, else low), SUBDOMAIN iff the domain starts
\* with '.' or f_subdomain_shared is set and the type is authentication
\* (high, else medium).
C14_PathTriggers ==
    Simulated =>
        /\ \A i, j \in 1..Len(simulation.paths) :
               i # j => simulation.paths[i].type # simulation.paths[j].type
        /\ Triggered("XSS", FlagOff(cookie, "httpOnly"),
                     IF IsAuthType THEN "critical" ELSE "medium")
        /\ Triggered("CSRF", SameSiteOpen(cookie), IF IsAuthType THEN "high" ELSE "low")
        /\ Triggered("NETWORK", FlagOff(cookie, "secure"),
                     IF IsAuthType THEN "high" ELSE "low")
        /\ Triggered("SUBDOMAIN", DotDomain(cookie) \/ (SharedFeature /\ IsAuthType),
                     IF IsAuthType THEN "high" ELSE "medium")
        /\ \A sev \in {CRITICAL, HIGH, MEDIUM, LOW, INFO}, iss \in {<< >>, SomeIssues} :
               simulate_attacks(cookie, ml.type, sev, iss, features, now) = simulation

\* an authentication cookie on a plain domain, hostOnly false and sameSite
\* no_restriction, simulated with its features and its scorer result: all
\* four paths, SUBDOMAIN through the feature alone
C14_Witness ==
    /\ Simulated
    /\ IsAuthType
    /\ ~DotDomain(cookie)
    /\ SharedFeature
    /\ analysis.status = "ok"
    /\ \A t \in {"XSS", "CSRF", "NETWORK", "SUBDOMAIN"} : PathsOfType(t) # {}
    /\ cookie["sameSite"] = Str(<< "no_restriction" >>)

HasExpiry(c) == c["expirationDate"].k \in {"num", "iso"}

\* remaining lifetime in half days
HalfDaysLeft(c) == c["expirationDate"].n - now

\* C15: a REPLAY path is emitted only for an authentication cookie that has
\* an expirationDate more than 30 days ahead, and then once and with
\* severity medium; a session cookie, a non-authentication cookie and a
\* cookie with 30 days or less to live get none.  For a numeric
\* expirationDate the path is emitted exactly in that case.
C15_Replay ==
    Simulated =>
        /\ PathsOfType("REPLAY") \subseteq {AttackPath("REPLAY", "medium")}
        /\ Cardinality({i \in 1..Len(simulation.paths) :
                            simulation.paths[i].type = "REPLAY"}) <= 1
        /\ PathsOfType("REPLAY") # {} =>
               HasExpiry(cookie) /\ HalfDaysLeft(cookie) > 60 /\ IsAuthType
        /\ cookie["expirationDate"].k = "num" =>
               (PathsOfType("REPLAY") # {} <=> (HalfDaysLeft(cookie) > 60 /\ IsAuthType))

\* an authentication cookie with 30.5 days left gets the REPLAY path
C15_Witness ==
    /\ Simulated
    /\ IsAuthType
    /\ cookie["expirationDate"].k = "num"
    /\ HalfDaysLeft(cookie) = 61
    /\ PathsOfType("REPLAY") = {AttackPath("REPLAY", "medium")}

\* the cookie of the documented example: httpOnly false, secure true,
\* sameSite Lax, and nothing else that opens a path (no wildcard domain, no
\* hostOnly false, no expirationDate)
ExampleCookie(c) ==
    /\ c["httpOnly"] = Bool(FALSE)
    /\ c["secure"] = Bool(TRUE)
    /\ c["sameSite"] = Str(<< "Lax" >>)
    /\ ~DotDomain(c)
    /\ c["hostOnly"] = Absent
    /\ c["expirationDate"] = Absent

\* C16: path_count is the number of paths (0..5), attack_surface_score is
\* min(path_count * 25, 100), and overall_risk is CRITICAL iff authentication
\* with two or more paths, HIGH iff authentication with one path, MODERATE
\* iff not authentication with at least one path, LOW otherwise.  The
\* authentication cookie with httpOnly false, secure true and sameSite Lax
\* gets exactly the critical XSS path, score 25 and HIGH.
C16_Summary ==
    Simulated =>
        /\ simulation.path_count = Len(simulation.paths)
        /\ simulation.path_count \in 0..5
        /\ simulation.attack_surface_score =
               (IF simulation.path_count >= 4 THEN 100 ELSE simulation.path_count * 25)
        /\ simulation.overall_risk = "CRITICAL" <=> (IsAuthType /\ simulation.path_count >= 2)
        /\ simulation.overall_risk = "HIGH" <=> (IsAuthType /\ simulation.path_count = 1)
        /\ simulation.overall_risk = "MODERATE" <=> (~IsAuthType /\ simulation.path_count >= 1)
        /\ simulation.overall_risk = "LOW" <=> simulation.path_count = 0
        /\ (IsAuthType /\ ExampleCookie(cookie)) =>
               /\ simulation.paths = << AttackPath("XSS", "critical") >>
               /\ simulation.attack_surface_score = 25
               /\ simulation.overall_risk = "HIGH"

\* all five paths at once: the score is capped at 100
C16_Witness ==
    /\ Simulated
    /\ IsAuthType
    /\ simulation.path_count = 5
    /\ simulation.attack_surface_score = 100
    /\ simulation.overall_risk = "CRITICAL"

FixFor(t) ==
    CASE t = "XSS"       -> Fix_XSS
      [] t = "CSRF"      -> Fix_CSRF
      [] t = "SUBDOMAIN" -> Fix_SUB
      [] t = "NETWORK"   -> Fix_NET
      [] t = "REPLAY"    -> Fix_REPLAY

HostPrefixedName(c) == StartsWith(Get(c, "name", Str(<< >>)).s, "__Host-")

\* C17: no fix text occurs twice in fixes; leaving the report fix aside,
\* fixes is the list of the paths' fixes, one per path, in path order; and
\* 'Report to site security team' is in the list exactly when the SUBDOMAIN
\* path is triggered and the name does not start with '__Host-'.
C17_Fixes ==
    Simulated =>
        /\ \A i, j \in 1..Len(simulation.fixes) :
               i # j => simulation.fixes[i] # simulation.fixes[j]
        /\ SelectSeq(simulation.fixes, LAMBDA f : f # Fix_Report)
               = [i \in 1..Len(simulation.paths) |-> FixFor(simulation.paths[i].type)]
        /\ (\E i \in 1..Len(simulation.fixes) : simulation.fixes[i] = Fix_Report)
               <=> (PathsOfType("SUBDOMAIN") # {} /\ ~HostPrefixedName(cookie))

\* five paths and six fixes for a cookie without the prefix
C17_Witness ==
    /\ Simulated
    /\ ~HostPrefixedName(cookie)
    /\ simulation.path_count = 5
    /\ Len(simulation.fixes) = 6

Extracted == features.status = "ok"

NoExpiry(c) == c["expirationDate"].k \in {"absent", "none"}

\* whole days from now, clamped to [0, 365]
ClampedDays(c) ==
    LET d == DaysLeft(c["expirationDate"], now)
    IN  IF d < 0 THEN 0 ELSE IF d > 365 THEN 365 ELSE d

\* C18: is_session_cookie is 1 exactly when the cookie has no
\* expirationDate, and then expiry_days, lifetime_category and
\* f_persistent_days_bucket are 0; with an expirationDate present
\* is_session_cookie is 0 and expiry_days is the whole number of days from
\* now clamped to [0, 365].
C18_SessionInvariant ==
    Extracted =>
        /\ features.is_session_cookie = 1 <=> NoExpiry(cookie)
        /\ NoExpiry(cookie) =>
               /\ features.expiry_days = 0
               /\ features.lifetime_category = 0
               /\ features.f_persistent_days_bucket = 0
        /\ ~NoExpiry(cookie) =>
               /\ features.is_session_cookie = 0
               /\ features.expiry_days = ClampedDays(cookie)

BehaviourFields == {"changed_during_login", "new_after_login", "rotated_after_login"}

CarriesBehaviour(c) == \E f \in BehaviourFields : c[f].k # "absent"

LoginContextSupplied ==
    /\ context.loginEvent
    /\ (context.changedCookies # {} \/ context.beforeCookieIndex # << >>)

InIndex(n) ==
    \E i \in 1..Len(context.beforeCookieIndex) : context.beforeCookieIndex[i].name = n

IndexedPresent(n) ==
    \E i \in 1..Len(context.beforeCookieIndex) :
        context.beforeCookieIndex[i].name = n /\ context.beforeCookieIndex[i].present

\* the three values in the stated order of resolution
StatedBehaviour ==
    LET n == cookie["name"].s
    IN  IF CarriesBehaviour(cookie)
        THEN [changed |-> IntOf(Get(cookie, "changed_during_login", Num(0))),
              new     |-> IntOf(Get(cookie, "new_after_login", Num(0))),
              rotated |-> IntOf(Get(cookie, "rotated_after_login", Num(0)))]
        ELSE IF LoginContextSupplied
        THEN [changed |-> B2I(n \in context.changedCookies),
              new     |-> B2I(~InIndex(n)),
              rotated |-> B2I(InIndex(n) /\ IndexedPresent(n))]
        ELSE [changed |-> 0, new |-> 0, rotated |-> 0]

\* C19: the three login-behaviour features are the cookie's own behaviour
\* fields if it carries any of them; otherwise, under a login event with a
\* changedCookies set or a beforeCookieIndex, changed = name in
\* changedCookies, new = name not in the index, rotated = name in the index
\* and present there; otherwise 0.  f_login_behavior_score is their sum and
\* lies in 0..3.
C19_ResolutionOrder ==
    Extracted =>
        /\ features.f_changed_during_login = StatedBehaviour.changed
        /\ features.f_new_after_login = StatedBehaviour.new
        /\ features.f_rotated_after_login = StatedBehaviour.rotated
        /\ features.f_login_behavior_score
               = StatedBehaviour.changed + StatedBehaviour.new + StatedBehaviour.rotated
        /\ features.f_login_behavior_score \in 0..3

Answered == response.status = "ok"

NoCookiesSent == batch \in {Absent, List(<< >>)}

\* C21: a request whose cookies list is empty or missing is answered with
\* HTTP 400 'No cookies provided', never with 500, and nothing is analysed
\* or ranked for it.
C21_BoundaryRejection ==
    (Answered /\ NoCookiesSent) =>
        /\ response.code = 400
        /\ response.error = "No cookies provided"
        /\ results = << >>
        /\ ranked_from = << >>

Sent == Normalized(CookiesOf(batch))

\* positions of the cookies whose (name, domain, path) key was not seen before
FirstOf(sent) ==
    {i \in 1..Len(sent) : \A j \in 1..(i - 1) : CookieKey(sent[j]) # CookieKey(sent[i])}

FirstOfKey == FirstOf(Sent)

\* the k-th of them
Kth(first, k) == CHOOSE i \in first : Cardinality({j \in first : j < i}) = k - 1

KthFirst(k) == Kth(FirstOfKey, k)

\* what the classifier answered for a result
AnswerIn(res) ==
    [status |-> "ok", type |-> res.ml_classification.type,
     confidence |-> res.ml_classification.confidence,
     probabilities |-> res.ml_classification.probabilities]

Stats == response.summary_stats

\* C22: a request with cookies, handled with the classifier loaded, gets one
\* result for each cookie that is the first of its (name, domain, path) key
\* and none for the later ones, so N results for N cookies of distinct keys;
\* total_cookies is that number and equals critical + high + medium + low +
\* info.
C22_BatchCompleteness ==
    (Answered /\ classifier = "loaded" /\ batch.k = "list" /\ batch.items # << >>) =>
        \A sent \in {Sent} : \A first \in {FirstOf(sent)} :
            /\ response.code = 200
            /\ Len(response.results) = Cardinality(first)
            /\ Len(results) = Cardinality(first)
            /\ \A k \in 1..Len(results) :
                   /\ AnswerIn(results[k]) \in ClassifierOutcomes
                   /\ results[k] = AnalyzeOne(sent[Kth(first, k)], site_host,
                                              AnswerIn(results[k]), now)
            /\ \A k \in 1..Len(results) :
                   Occurrences(response.results, results[k]) = Occurrences(results, results[k])
            /\ Stats.total_cookies = Cardinality(first)
            /\ Stats.total_cookies
                   = Stats.critical + Stats.high + Stats.medium + Stats.low + Stats.info
            /\ (Cardinality(first) = Len(batch.items)) =>
                   Len(response.results) = Len(batch.items)

\* three cookies sent, the second repeating the key of the first with another
\* httpOnly flag: two results, the first cookie's flag decides
C22_Witness ==
    /\ Answered
    /\ classifier = "loaded"
    /\ batch.k = "list"
    /\ Len(batch.items) = 3
    /\ FirstOfKey = {1, 3}
    /\ Sent[1] # Sent[2]
    /\ response.code = 200
    /\ Stats.total_cookies = 2
    /\ results[1].score # 0

HttpOnlyOff(c) == c["httpOnly"] = Bool(FALSE)

SecureOff(c) == c["secure"] = Bool(FALSE)

\* C23: a security-sensitive cookie with httpOnly false, secure false and
\* sameSite none (or not set) is scored at least 85 and rated critical; a
\* security-sensitive cookie with httpOnly false carries the critical
\* 'Missing HttpOnly Flag' issue, is scored at least 40 and is rated high or
\* critical, whatever its domain, path and expiry.
C23_InsecureAuth ==
    Sensitive =>
        /\ (HttpOnlyOff(cookie) /\ SecureOff(cookie) /\ SameSiteOpen(cookie)) =>
               /\ analysis.score >= 85
               /\ analysis.severity = CRITICAL
        /\ HttpOnlyOff(cookie) =>
               /\ \E i \in 1..Len(analysis.issues) :
                      /\ analysis.issues[i].title = T_HttpOnly
                      /\ analysis.issues[i].severity = CRITICAL
               /\ analysis.score >= 40
               /\ analysis.severity \in {CRITICAL, HIGH}

\* httpOnly false alone on the narrowest scope: exactly 40 points, rated high
C23_Witness ==
    /\ Sensitive
    /\ HttpOnlyOff(cookie)
    /\ ~SecureOff(cookie)
    /\ ~SameSiteOpen(cookie)
    /\ analysis.score = 40
    /\ analysis.severity = HIGH

\* the value under the first of the keys that the cookie carries
RECURSIVE FirstPresent(_, _)
FirstPresent(c, keys) ==
    IF keys = << >> THEN Absent
    ELSE IF c[keys[1]].k # "absent" THEN c[keys[1]]
    ELSE FirstPresent(c, Tail(keys))

\* a flag value read with a truth table: the strings of yes are set, the
\* strings of no are not, None and a missing value are not, everything else
\* is set when Python finds it true
ReadAs(v, yes, no) ==
    CASE v.k \in {"absent", "none"} -> FALSE
      [] v.k = "bool" -> v.b
      [] v.k = "num"  -> v.n # 0
      [] v.k = "str"  ->
            IF Lower(Strip(v.s)) \in yes THEN TRUE
            ELSE IF Lower(Strip(v.s)) \in no THEN FALSE
            ELSE v.s # << >>
      [] v.k = "list" -> v.items # << >>
      [] OTHER        -> TRUE

\* the table as documented, and the table with the single letters and marks
DocYes  == {<< "true" >>, << "1" >>, << "yes" >>, << "on" >>}
DocNo   == {<< "false" >>, << "0" >>, << "no" >>, << "off" >>}
FullYes == DocYes \cup {<< "y" >>, << "U+2713" >>, << "U+2713", " ", "yes" >>}
FullNo  == DocNo \cup {<< "n" >>, << "U+2717" >>, << "U+2717", " ", "no" >>}

\* analyze_cookie has returned for a cookie it holds security-sensitive
Judged == analysis.status = "ok" /\ analysis.sensitive

\* the two flag issues follow the flags read with the given table
FlagsReadAs(yes, no) ==
    Judged =>
        /\ Listed(T_HttpOnly) <=> ~ReadAs(FirstPresent(cookie, HttpOnlyKeys), yes, no)
        /\ Listed(T_Secure) <=> ~ReadAs(FirstPresent(cookie, SecureKeys), yes, no)

\* C24 as stated: the scorer never raises, and it reads HttpOnly from the
\* first present key among httpOnly/HttpOnly/httponly/http_only and Secure
\* from secure/Secure with the table true/1/yes/on -> set,
\* false/0/no/off -> not set, anything else by truthiness, a missing or None
\* value -> flag missing.
C24_Original ==
    /\ analysis.status \in {"none", "ok"}
    /\ FlagsReadAs(DocYes, DocNo)

\* C24: the same with the table the code carries: y, the check mark and
\* 'check mark yes' are also set; n, the cross and 'cross no' are also not
\* set; strings are compared stripped and in lower case.
C24_FlagLookup ==
    /\ analysis.status \in {"none", "ok"}
    /\ FlagsReadAs(FullYes, FullNo)

\* the flag stored as ' false ' under the last spelling, found missing
C24_Witness ==
    /\ Judged
    /\ cookie["httpOnly"] = Absent
    /\ cookie["http_only"] = Str(<< " ", "false", " " >>)
    /\ Listed(T_HttpOnly)
    /\ ~Listed(T_Secure)

LifetimeTitles == {T_LongLived, T_Moderate, T_MultiDay}

\* d: whole days from now to the expirationDate, 0 for a past date
WholeDays(c) ==
    IF c["expirationDate"].n <= now THEN 0
    ELSE CHOOSE d \in 0..(c["expirationDate"].n - now) :
             2 * d <= c["expirationDate"].n - now /\ c["expirationDate"].n - now < 2 * d + 2

\* the lifetime issue documented for d days: << severity, title, points >>
DocLifetimeIssue(d) ==
    IF d > 30 THEN {<< MEDIUM, T_LongLived, 10 >>}
    ELSE IF d >= 8 THEN {<< LOW, T_Moderate, 5 >>}
    ELSE IF d >= 3 THEN {<< LOW, T_MultiDay, 3 >>}
    ELSE {}

\* the lifetime issues of the result, with the points they added to the raw
\* points of the same cookie without expirationDate
LifetimeIssues ==
    {<< analysis.issues[i].severity, analysis.issues[i].title,
        analysis.raw_points - Rescored(With(cookie, "expirationDate", Absent)).raw_points >> :
        i \in {k \in 1..Len(analysis.issues) : analysis.issues[k].title \in LifetimeTitles}}

\* C25: a security-sensitive cookie with an expirationDate d whole days
\* ahead (0 for a past date) carries exactly the one lifetime issue of its
\* tier (d > 30 Long-Lived medium +10, 8..30 Moderate low +5, 3..7 Multi-Day
\* low +3, d < 3 none) and the multiplier 1 + min(d/365, 1), which lies in
\* [1, 2] also beyond 365 days; without expirationDate there is no lifetime
\* issue and the multiplier is 1.0.
C25_LifetimeRule ==
    Sensitive =>
        /\ HasExpiry(cookie) =>
               /\ LifetimeIssues = DocLifetimeIssue(WholeDays(cookie))
               /\ Cardinality({i \in 1..Len(analysis.issues) :
                                  analysis.issues[i].title \in LifetimeTitles})
                      = Cardinality(DocLifetimeIssue(WholeDays(cookie)))
               /\ analysis.lifetime_factor
                      = FAdd(FInt(1), FMin(FDivInt(WholeDays(cookie), 365), FInt(1)))
               /\ ~FLess(analysis.lifetime_factor, FInt(1))
               /\ ~FLess(FInt(2), analysis.lifetime_factor)
        /\ cookie["expirationDate"].k = "absent" =>
               /\ TitlesOf(analysis.issues) \cap LifetimeTitles = {}
               /\ analysis.lifetime_factor = FInt(1)

\* FarDays days ahead: the long-lived issue and the multiplier exactly 2
C25_Witness ==
    /\ Sensitive
    /\ HasExpiry(cookie)
    /\ WholeDays(cookie) = FarDays
    /\ Listed(T_LongLived)
    /\ analysis.lifetime_factor = FInt(2)

\* the scope issues that carry points
PointedScopeTitles == ScopeTitles \ {T_HostUnverifiable}

NameOf(c) == Get(c, "name", Str(<< >>)).s

\* 'Broad Path Scope' is listed exactly for a sensitive cookie at the root
\* path that has a point-bearing scope issue and no '__Host-' name, and then
\* once, low, and worth 5 points over the same cookie on path '/app'
BroadPathRule(atRoot) ==
    Scored =>
        /\ Listed(T_BroadPath) <=>
               /\ analysis.sensitive
               /\ atRoot
               /\ TitlesOf(analysis.issues) \cap PointedScopeTitles # {}
               /\ ~StartsWith(NameOf(cookie), "__Host-")
        /\ Listed(T_BroadPath) =>
               /\ \A i \in 1..Len(analysis.issues) :
                      analysis.issues[i].title = T_BroadPath =>
                          /\ analysis.issues[i].severity = LOW
                          /\ \A j \in 1..Len(analysis.issues) :
                                 analysis.issues[j].title = T_BroadPath => j = i
               /\ analysis.raw_points
                      - Rescored(With(cookie, "path", Str(<< "/", "app" >>))).raw_points = 5
        /\ (T_HostUnverifiable \in TitlesOf(analysis.issues)) => ~Listed(T_BroadPath)

Explained == explanation.status = "ok" /\ analysis.status = "ok"

\* C27: the severity_points that explain_prediction rebuilds from the issue
\* titles equal the raw points the scorer accumulated before multipliers,
\* for every issue list analyze_cookie produces.
C27_MirrorsPoints ==
    (Explained /\ analysis.sensitive) =>
        explanation.severity_points = analysis.raw_points

HasPath(t) == PathsOfType(t) # {}

\* C28: for an authentication-type cookie, whatever the spelling and the
\* representation of its flags and expiry, simulate_attacks emits an XSS,
\* NETWORK, CSRF or REPLAY path exactly when analyze_cookie lists 'Missing
\* HttpOnly Flag', 'Missing Secure Flag', 'Missing SameSite Protection' or
\* 'Long-Lived Session Cookie' respectively.
C28_SelfConsistent ==
    (IsAuthType /\ Simulated /\ analysis.status = "ok") =>
        /\ HasPath("XSS") <=> Listed(T_HttpOnly)
        /\ HasPath("NETWORK") <=> Listed(T_Secure)
        /\ HasPath("CSRF") <=> Listed(T_SameSite)
        /\ HasPath("REPLAY") <=> Listed(T_LongLived)

Reversed(s) == [i \in 1..Len(s) |-> s[Len(s) + 1 - i]]

\* the handler on the request that holds only the given cookie
Alone(c, m) == analyze_cookies(TRUE, List(<< c >>), site_host, << m >>, now)

\* the handler on the same cookies sent in the opposite order
Backwards ==
    analyze_cookies(TRUE, List(Reversed(batch.items)), site_host,
                    Reversed([k \in 1..Len(results) |-> AnswerIn(results[k])]), now)

\* the single-cookie pipeline: scoring only after classification,
\* classification only after feature extraction
StepOrder ==
    pc \in {"start", "extracted", "classified", "scored", "error"} =>
        /\ analysis.status # "none" => ml.status = "ok"
        /\ ml.status # "none" => features.status = "ok"

SeverityLevel(sev) ==
    CASE sev = CRITICAL -> 4
      [] sev = HIGH     -> 3
      [] sev = MEDIUM   -> 2
      [] sev = LOW      -> 1
      [] OTHER          -> 0

\* the issues of the result that carry points: all but the info note
PointBearing == {i \in 1..Len(analysis.issues) : analysis.issues[i].severity # INFO}

\* the overall severity is at most slack levels below every point-bearing
\* issue, and a result scored 0 lists none
Dominates(slack) ==
    Scored =>
        /\ \A i \in PointBearing :
               SeverityLevel(analysis.severity) + slack
                   >= SeverityLevel(analysis.issues[i].severity)
        /\ analysis.score = 0 => PointBearing = {}

\* C30 as stated: the overall severity of a result is at least as severe as
\* every point-bearing issue it lists, and a result with score 0 lists no
\* point-bearing issue.
C30_Original == Dominates(0)

\* C30: the overall severity follows the score alone; it is never more than
\* one level below a point-bearing issue of the result and is at least low
\* when there is one, and a result with score 0 lists no point-bearing issue.
C30_SeverityDominance ==
    /\ Dominates(1)
    /\ (Scored /\ PointBearing # {}) => SeverityLevel(analysis.severity) >= 1

\* only the high 'Missing SameSite Protection' issue: 20 points, medium
C30_Witness ==
    /\ Sensitive
    /\ TitlesOf(analysis.issues) = {T_SameSite}
    /\ analysis.issues[1].severity = HIGH
    /\ analysis.score = 20
    /\ analysis.severity = MEDIUM

====
